---- MODULE Spec2Model ----
(***************************************************************************)
(* Verification model of the TrustSkill scanner (src/src).                 *)
(*                                                                         *)
(*   Spec        the SkillScanner object: construction, file discovery and  *)
(*               the per-file analysis loop of SkillScanner.scan, driven    *)
(*               through the Python API (optionally with a progress sink). *)
(*   SpecResult  the ScanResult value and its derived accessors.           *)
(*   SpecCli     cli.main: config loading, scanner construction, one scan, *)
(*               exit code.                                                *)
(*                                                                         *)
(* File contents are represented by exemplar texts; the findings each      *)
(* analyzer returns for an exemplar are those of the analyzer's code.      *)
(***************************************************************************)
EXTENDS Integers, Sequences, FiniteSets, TLC

VARIABLES
    mode,           \* SkillScanner.mode
    config,         \* SkillScanner.config (record; present = FALSE is None)
    analyzers,      \* SkillScanner.analyzers, in activation order
    ctorRaises,     \* analyzer classes whose constructor raises in this process
    rootPath,       \* components of the directory given to scan()
    rootExists,     \* whether that directory exists
    tree,           \* relative path -> [present, readable, content]
    pc,             \* position inside scan(): idle/read/analyze/done/raised
                    \* (analyzed/listed: a direct call of a method is over)
    sink,           \* progress_callback of the running scan: none/ok/raising
    files,          \* scan(): files
    total_files,    \* scan(): total_files
    idx,            \* scan(): position of the for-loop over files (1-based)
    content,        \* scan(): content of the current file
    aidx,           \* scan(): position of the loop over self.analyzers
    file_findings,  \* scan(): file_findings
    all_findings,   \* scan(): all_findings
    files_scanned,  \* scan(): files_scanned
    elapsed,        \* steps taken since start_time was recorded
    result,         \* the ScanResult returned by the running scan
    sinkCalls,      \* arguments of every progress_callback invocation
    log,            \* history: reads and analyzer calls of the running scan
    scanNo,         \* how many scan() calls were started on this scanner
    prev,           \* outcome of the previous scan() call made by the caller
    tainted_vars,   \* TaintAnalyzer.analyze: tainted_vars as its last call left it
    cliPc,          \* position inside cli.main
    cliArgs,        \* parsed command line of cli.main
    exitCode,       \* sys.exit code of cli.main (-1 before exit)
    stderr,         \* warnings printed by cli.main
    rFindings,      \* SpecResult: ScanResult.findings
    rSummary,       \* SpecResult: value of the last risk_summary access
    rAssessment,    \* SpecResult: value of the last security_assessment access
    node,           \* the ast node given to the method under analysis
    line,           \* the line given to the method under analysis
    walkPos         \* TaintAnalyzer.analyze: position of the loop over ast.walk

scanVars == <<pc, sink, files, total_files, idx, content, aidx, file_findings,
              all_findings, files_scanned, elapsed, result, sinkCalls, log,
              scanNo, prev, tainted_vars>>
envVars  == <<rootPath, rootExists, tree>>
objVars  == <<mode, config, analyzers, ctorRaises>>
cliVars  == <<cliPc, cliArgs, exitCode, stderr>>
resVars  == <<rFindings, rSummary, rAssessment>>
unitVars == <<node, line, walkPos>>
vars     == <<objVars, envVars, scanVars, cliVars, resVars, unitVars>>

----------------------------------------------------------------------------
(* Bounds *)

MaxScans == 2          \* scan() calls made on one scanner object
MaxFindings == 7       \* length of ScanResult.findings in SpecResult

----------------------------------------------------------------------------
(* types.py *)

Severity == {"HIGH", "MEDIUM", "LOW", "INFO"}
AnalysisMode == {"FAST", "STANDARD", "DEEP"}

\* SecurityIssue; src is a history field naming the emitting analyzer.
SecurityIssue(level, category, file, src) ==
    [level |-> level, category |-> category, file |-> file, src |-> src]

RECURSIVE CountLevel(_, _)
CountLevel(findings, lv) ==
    IF findings = <<>> THEN 0
    ELSE (IF Head(findings).level = lv THEN 1 ELSE 0)
         + CountLevel(Tail(findings), lv)


\* Mutant of risk_summary: INFO findings are not counted.
risk_summary_SkipsInfo(findings) ==
    [k \in {"HIGH", "MEDIUM", "LOW", "INFO"} |->
        IF k = "INFO" THEN 0 ELSE CountLevel(findings, k)]

\* ScanResult.risk_summary
risk_summary(findings) ==
    [k \in {"HIGH", "MEDIUM", "LOW", "INFO"} |-> CountLevel(findings, k)]

\* Mutant of security_assessment: the warning tier starts at five MEDIUM.
security_assessment_FromFive(findings) ==
    LET summary == risk_summary(findings) IN
    IF summary["HIGH"] > 0 THEN "CRITICAL"
    ELSE IF summary["MEDIUM"] >= 5 THEN "WARNING"
    ELSE IF summary["MEDIUM"] > 0 THEN "CAUTION"
    ELSE "SAFE"

\* ScanResult.security_assessment (the tier of the returned text)
security_assessment(findings) ==
    LET summary == risk_summary(findings) IN
    IF summary["HIGH"] > 0 THEN "CRITICAL"
    ELSE IF summary["MEDIUM"] > 5 THEN "WARNING"
    ELSE IF summary["MEDIUM"] > 0 THEN "CAUTION"
    ELSE "SAFE"

\* ScanResult(skill_path, files_scanned, findings, scan_time)
ScanResult(n, findings, t) ==
    [returned |-> TRUE, files_scanned |-> n, findings |-> findings,
     scan_time |-> t]

\* no ScanResult (scan not finished, or left by an exception)
NoResult ==
    [returned |-> FALSE, files_scanned |-> 0, findings |-> <<>>,
     scan_time |-> 0]

----------------------------------------------------------------------------
(* rules.py *)

SCAN_EXTENSIONS ==
    {".py", ".js", ".ts", ".sh", ".bash", ".zsh", ".fish", ".rb", ".pl",
     ".php", ".go", ".rs", ".cpp", ".md", ".txt", ".json", ".yaml", ".yml",
     ".toml"}

IGNORE_PATTERNS ==
    {"\\.git", "\\.svn", "\\.hg", "node_modules", "__pycache__",
     "\\.pytest_cache", "\\.venv", "venv", "\\.env", "dist", "build",
     "\\.egg-info", "\\.tox", "\\.coverage"}

DOCUMENTATION_FILES ==
    {"SKILL.md", "README.md", "CHANGELOG.md", "LICENSE", "AGENTS.md"}

----------------------------------------------------------------------------
(* The file system given to the scanner *)

\* Path components that occur in the model.
\* re.search(pattern, component): the ignore patterns found in a component.
PatternsFoundIn(component) ==
    CASE component = "node_modules" -> {"node_modules"}
      [] component = "build"        -> {"build"}
      [] component = "build.py"     -> {"build"}
      [] OTHER                      -> {}

\* Path.suffix
Suffix(name) ==
    CASE name = "main.py"  -> ".py"
      [] name = "SKILL.md" -> ".md"
      [] name = "dep.js"   -> ".js"
      [] name = "logo.png" -> ".png"
      [] name = "util.py"  -> ".py"
      [] name = "build.py" -> ".py"
      [] OTHER             -> ""

\* Position of a component in Python's string order (upper case first).
Rank(name) ==
    CASE name = "SKILL.md"     -> 1
      [] name = "build"        -> 2
      [] name = "build.py"     -> 3
      [] name = "demo"         -> 4
      [] name = "dep.js"       -> 5
      [] name = "logo.png"     -> 6
      [] name = "main.py"      -> 7
      [] name = "node_modules" -> 8
      [] name = "skills"       -> 9
      [] name = "util.py"      -> 10
      [] OTHER                 -> 11

\* Relative paths of the regular files the tree may hold.
RelPaths ==
    {<<"main.py">>, <<"SKILL.md">>, <<"util.py">>,
     <<"node_modules", "dep.js">>, <<"logo.png">>, <<"build.py">>}

\* Exemplar file contents:
\*   benign     print('hello')
\*   eval       eval(user_input)
\*   secret     password = "hunter2hunter2"
\*   vulndep    import requests / requests.get('http://a.b')
\*   taint      cmd = input() / os.system(cmd)
\*   deepchain  password = "hunter2hunter2" / x = 1+1+...+1 (100000 terms;
\*              ast.parse raises RecursionError)
Contents == {"benign", "eval", "secret", "vulndep", "taint", "deepchain"}

Absent == [present |-> FALSE, readable |-> FALSE, content |-> "benign"]
File(c) == [present |-> TRUE, readable |-> TRUE, content |-> c]
Unreadable == [present |-> TRUE, readable |-> FALSE, content |-> "benign"]

\* The states each path of the tree may be in.
FileStates(p) ==
    CASE p = <<"main.py">>  -> {Absent, Unreadable} \cup {File(c) : c \in Contents}
      [] p = <<"SKILL.md">> -> {Absent, Unreadable, File("benign"), File("secret")}
      [] p = <<"util.py">>  -> {Absent, File("eval")}
      [] p = <<"build.py">> -> {Absent}
      [] OTHER              -> {Absent, File("benign")}

Trees == {t \in [RelPaths -> UNION {FileStates(p) : p \in RelPaths}] :
            \A p \in RelPaths : t[p] \in FileStates(p)}

RootPaths == {<<"skills", "demo">>, <<"build", "demo">>}

Name(path) == path[Len(path)]

----------------------------------------------------------------------------
(* config/loader.py: the Config object handed to the scanner *)

\* SecretDetectionConfig defaults; entropies are in hundredths of a bit
DefaultMinEntropy == 450
DefaultMinLength == 20

\* CustomPattern(name, pattern, severity, description); regex names the
\* text class its pattern matches
CustomPattern(name, regex, severity) ==
    [name |-> name, pattern |-> regex, severity |-> severity]

\* config=None (the analyzers then use the defaults)
NoConfig ==
    [present |-> FALSE, secretEnabled |-> TRUE, depEnabled |-> TRUE,
     minEntropy |-> DefaultMinEntropy, minLength |-> DefaultMinLength,
     customPatterns |-> <<>>]

\* Config with secret_detection.enabled and dependency_check.enabled
Config(secretEnabled, depEnabled) ==
    [present |-> TRUE, secretEnabled |-> secretEnabled,
     depEnabled |-> depEnabled,
     minEntropy |-> DefaultMinEntropy, minLength |-> DefaultMinLength,
     customPatterns |-> <<>>]

----------------------------------------------------------------------------
(* The text of the exemplar files, as the analyzers see it *)

\* ast.parse(content)
AstParse(c) ==
    CASE c = "deepchain" -> "RecursionError"
      [] c = "syntaxerr" -> "SyntaxError"
      [] OTHER           -> "tree"

\* ast.Name, ast.Constant, ast.keyword
AstName(id) == [type |-> "Name", id |-> id]
AstConstant(value) == [type |-> "Constant", value |-> value]
Keyword(arg, value) == [arg |-> arg, value |-> value]

\* The func of an ast.Call: name is what PythonASTVisitor._get_func_name
\* returns (the id, or the last attribute), module the id the attribute is
\* taken from ("" for a plain name), dotted what TaintAnalyzer._get_func_name
\* returns.
Func(module, name, dotted) ==
    [module |-> module, name |-> name, dotted |-> dotted]

\* ast.Call, ast.Assign (one Name target, with its lineno), ast.Import (the
\* names of its aliases), ast.ImportFrom (module "" is a relative import)
Call(func, args, keywords) ==
    [type |-> "Call", func |-> func, args |-> args, keywords |-> keywords]
Assign(target, value, lineno) ==
    [type |-> "Assign", target |-> target, value |-> value,
     lineno |-> lineno]
Import(names) == [type |-> "Import", names |-> names]
ImportFrom(module, names) ==
    [type |-> "ImportFrom", module |-> module, names |-> names]

CallInput == Call(Func("", "input", "input"), <<>>, <<>>)
CallOsSystem(arg) ==
    Call(Func("os", "system", "os.system"), <<AstName(arg)>>, <<>>)
CallEval == Call(Func("", "eval", "eval"), <<AstName("user_input")>>, <<>>)

\* The Import, Assign and Call nodes of ast.parse(content), in the order of
\* ast.walk; in these exemplars NodeVisitor.visit meets the Call and Import
\* nodes in the same order.
Nodes(c) ==
    CASE c = "benign" ->
            <<Call(Func("", "print", "print"), <<AstConstant("hello")>>, <<>>)>>
      [] c = "eval" -> <<CallEval>>
      [] c = "secret" -> <<Assign("password", AstConstant("hunter2hunter2"), 1)>>
      [] c = "vulndep" ->
            <<Import(<<"requests">>),
              Call(Func("requests", "get", "requests.get"),
                   <<AstConstant("http://a.b")>>, <<>>)>>
      [] c = "taint" ->
            <<Assign("cmd", CallInput, 1), CallInput, CallOsSystem("cmd")>>
      [] c = "src_only" -> <<Assign("cmd", CallInput, 1), CallInput>>
      [] c = "sink_only" -> <<CallOsSystem("cmd")>>
      [] c = "mixed" ->
            <<CallEval,
              Call(Func("requests", "get", "requests.get"),
                   <<AstName("target")>>, <<>>),
              CallOsSystem("command"),
              Call(Func("", "fetch", "fetch"),
                   <<AstConstant("http://10.0.0.1/a")>>, <<>>)>>
      [] c = "custom" -> <<Assign("marker", AstName("TEST_SECRET_abc123"), 1)>>
      [] OTHER -> <<>>

\* A line of text, as SecretAnalyzer._analyze_line reads it:
\*   blank           empty after strip(), or starts with '#'
\*   falsePositive   a FALSE_POSITIVE_PATTERNS entry is found in the line
\*   matches         the SECRET_PATTERNS matches in the line, in table order
\*   keyAssign       (api_key|password|secret|token) followed by '='
\*   valueLen        length of the value _extract_secret_value returns
\*   valueFalsePositive  a FALSE_POSITIVE_PATTERNS entry is found in it
\*   candidates      the quoted strings of 20 or more key characters, in
\*                   order, with their length and Shannon entropy
\*   likelyAssign    _is_likely_secret_assignment(line)
PlainLine ==
    [blank |-> FALSE, falsePositive |-> FALSE, matches |-> <<>>,
     keyAssign |-> FALSE, valueLen |-> 0, valueFalsePositive |-> FALSE,
     candidates |-> <<>>, likelyAssign |-> FALSE]

\* a match of a SECRET_PATTERNS entry; falsePositive: a
\* FALSE_POSITIVE_PATTERNS entry is found in the matched text
SecretMatch(description, severity, falsePositive) ==
    [description |-> description, severity |-> severity,
     falsePositive |-> falsePositive]

\* password = "hunter2hunter2"
PasswordLine ==
    [PlainLine EXCEPT
        !.matches = <<SecretMatch("Hardcoded Password", "HIGH", FALSE)>>,
        !.keyAssign = TRUE, !.valueLen = 14, !.likelyAssign = TRUE]

\* content.split('\n'), without the empty last line
Lines(c) ==
    CASE c = "secret"    -> <<PasswordLine>>
      [] c = "deepchain" -> <<PasswordLine, PlainLine>>
      [] c = "syntaxerr" -> <<PasswordLine, PlainLine, PlainLine>>
      [] c = "vulndep"   -> <<PlainLine, PlainLine>>
      [] c = "taint"     -> <<PlainLine, PlainLine>>
      [] c = "mixed"     -> <<PlainLine, PlainLine, PlainLine, PlainLine>>
      [] OTHER           -> <<PlainLine>>

----------------------------------------------------------------------------
(* analyzers/*.py *)

Returned(issues) == [raised |-> FALSE, issues |-> issues]
Raised == [raised |-> TRUE, issues |-> <<>>]

\* concatenation of the lists f[1], ..., f[n]
RECURSIVE Flatten(_)
Flatten(lists) ==
    IF lists = <<>> THEN <<>> ELSE Head(lists) \o Flatten(Tail(lists))

\* Categories of the matches of a pattern table in an exemplar, in match
\* order, before the false-positive filters.
TableMatches(c, tier) ==
    CASE tier = "HIGH" /\ c \in {"eval", "syntaxerr", "mixed"}
                                          -> <<"command_injection">>
      [] tier = "MEDIUM" /\ c \in {"vulndep", "mixed"}
                                          -> <<"network_request">>
      [] tier = "LOW" /\ c \in {"taint", "sink_only", "mixed"}
                                          -> <<"shell_command">>
      [] OTHER                            -> <<>>

\* The SUSPICIOUS_PATTERNS matches in an exemplar that are no safe service.
SuspiciousMatches(c) ==
    IF c = "mixed" THEN <<"suspicious_url">> ELSE <<>>

\* The text around a match of a pattern table, as the filters of
\* RegexAnalyzer._check_patterns read it:
\*   singleQuotes, doubleQuotes   the ' and " characters of the line of the
\*                                match that precede it
\*   patternDefinition, exampleCode   an indicator of the filter is found
\*                                in the characters around the match
\*   whitelistPattern   a DEFAULT_WHITELIST_PATTERNS entry is found there
\*   documentationReference   _is_documentation_reference(content, pos)
\*   tier               the table the pattern that matched is taken from
MatchContext(singleQuotes, doubleQuotes, tier) ==
    [singleQuotes |-> singleQuotes, doubleQuotes |-> doubleQuotes,
     patternDefinition |-> FALSE, exampleCode |-> FALSE,
     whitelistPattern |-> FALSE, documentationReference |-> FALSE,
     tier |-> tier]

\* RegexAnalyzer._is_in_string_literal: each count is subtracted from
\* itself
IsInStringLiteral(ctx) ==
    LET single_quotes == ctx.singleQuotes - ctx.singleQuotes
        double_quotes == ctx.doubleQuotes - ctx.doubleQuotes
    IN  single_quotes % 2 = 1 \/ double_quotes % 2 = 1

\* RegexAnalyzer._is_whitelisted_pattern on a match
IsWhitelistedMatch(ctx, path) ==
    \/ ctx.whitelistPattern
    \/ (Name(path) \in DOCUMENTATION_FILES /\ ctx.documentationReference)
    \/ Name(path) \in {"with_server.py", "test_server.py", "conftest.py",
                        "test_helpers.py"}

\* RegexAnalyzer._check_patterns, lines 148-178: one match of a pattern of
\* the category in the table of the tier
CheckMatch(ctx, tier, category, path) ==
    IF IsInStringLiteral(ctx) THEN <<>>
    ELSE IF ctx.patternDefinition THEN <<>>
    ELSE IF ctx.exampleCode THEN <<>>
    ELSE IF IsWhitelistedMatch(ctx, path) THEN <<>>
    ELSE <<SecurityIssue(tier, category, Name(path), "Regex")>>

\* RegexAnalyzer._is_whitelisted_pattern: no exemplar holds a whitelist
\* pattern or a code fence, so in a documentation file every match is a
\* documentation reference.
IsWhitelistedPattern(path) == Name(path) \in DOCUMENTATION_FILES

\* RegexAnalyzer._check_patterns
CheckPatterns(c, tier, path) ==
    IF IsWhitelistedPattern(path) THEN <<>>
    ELSE [i \in 1..Len(TableMatches(c, tier)) |->
            SecurityIssue(tier, TableMatches(c, tier)[i], Name(path), "Regex")]

\* RegexAnalyzer.analyze, lines 207-228: the suspicious URLs
SuspiciousUrls(c, path) ==
    [i \in 1..Len(SuspiciousMatches(c)) |->
        SecurityIssue("MEDIUM", SuspiciousMatches(c)[i], Name(path), "Regex")]

\* Mutant of RegexAnalyze: the MEDIUM table is scanned in every mode.
RegexAnalyze_MediumAlways(path, c, m) ==
    Returned(
        CheckPatterns(c, "HIGH", path)
        \o CheckPatterns(c, "MEDIUM", path)
        \o (IF m = "DEEP" THEN CheckPatterns(c, "LOW", path) ELSE <<>>)
        \o (IF m \in {"STANDARD", "DEEP"}
            THEN SuspiciousUrls(c, path) ELSE <<>>))

\* RegexAnalyzer.analyze; self.config is never read.
RegexAnalyze(path, c, m) ==
    Returned(
        CheckPatterns(c, "HIGH", path)
        \o (IF m \in {"STANDARD", "DEEP"}
            THEN CheckPatterns(c, "MEDIUM", path) ELSE <<>>)
        \o (IF m = "DEEP" THEN CheckPatterns(c, "LOW", path) ELSE <<>>)
        \o (IF m \in {"STANDARD", "DEEP"}
            THEN SuspiciousUrls(c, path) ELSE <<>>))

TESTING_UTILITY_FILES ==
    {"with_server.py", "test_server.py", "conftest.py", "test_helpers.py"}

\* PythonASTVisitor._is_dangerous_call: the category, "" for None
DangerousCall(func_name) ==
    CASE func_name \in {"eval", "exec", "compile"} -> "command_injection"
      [] func_name = "__import__"                   -> "dynamic_import"
      [] OTHER                                      -> ""

\* PythonASTVisitor._has_shell_true
HasShellTrue(n) ==
    \E i \in 1..Len(n.keywords) :
        /\ n.keywords[i].arg = "shell"
        /\ n.keywords[i].value.type = "Constant"
        /\ n.keywords[i].value.value = "True"

\* PythonASTVisitor._check_open_call: the sensitive_patterns found in a
\* constant first argument
SensitivePaths == {"~/.ssh/id_rsa"}
CheckOpenCall(n, filename) ==
    IF n.args # <<>> /\ n.args[1].type = "Constant"
       /\ n.args[1].value \in SensitivePaths
    THEN <<SecurityIssue("HIGH", "sensitive_file_access", filename, "AST")>>
    ELSE <<>>

\* PythonASTVisitor.visit_Call (the findings of the node itself)
VisitCall(n, filename) ==
    LET func_name == n.func.name
        has_variable == \E i \in 1..Len(n.args) : n.args[i].type # "Constant"
    IN  (IF DangerousCall(func_name) # "" /\ has_variable
         THEN <<SecurityIssue("HIGH", DangerousCall(func_name), filename,
                              "AST")>>
         ELSE <<>>)
        \o (IF func_name \in {"system", "popen"} /\ n.func.module = "os"
            THEN <<SecurityIssue("HIGH", "command_injection", filename,
                                 "AST")>>
            ELSE <<>>)
        \o (IF /\ func_name \in {"call", "run", "Popen"}
               /\ n.func.module = "subprocess"
               /\ HasShellTrue(n)
               /\ filename \notin TESTING_UTILITY_FILES
            THEN <<SecurityIssue("HIGH", "command_injection", filename,
                                 "AST")>>
            ELSE <<>>)
        \o (IF func_name = "open" THEN CheckOpenCall(n, filename) ELSE <<>>)

\* the finding of visit_Import and visit_ImportFrom, with its confidence
\* 0.7 in units of 1/20000
DeserializationIssue(filename) ==
    [level |-> "MEDIUM", category |-> "deserialization", file |-> filename,
     src |-> "AST", confidence |-> 14000]

\* PythonASTVisitor.visit_Import: a finding per alias of the list
VisitImport(n, filename) ==
    Flatten([i \in 1..Len(n.names) |->
                IF n.names[i] \in {"pickle", "marshal", "shelve"}
                THEN <<DeserializationIssue(filename)>> ELSE <<>>])

\* PythonASTVisitor.visit_ImportFrom
VisitImportFrom(n, filename) ==
    IF n.module \in {"pickle", "marshal"}
    THEN <<DeserializationIssue(filename)>>
    ELSE <<>>

\* PythonASTVisitor.visit on one node
Visit(n, filename) ==
    CASE n.type = "Call"   -> VisitCall(n, filename)
      [] n.type = "Import" -> VisitImport(n, filename)
      [] n.type = "ImportFrom" -> VisitImportFrom(n, filename)
      [] OTHER             -> <<>>

\* Mutant of ASTAnalyze: a parse failure leaves analyze as an exception.
ASTAnalyze_ParseErrorRaises(path, c) ==
    IF Suffix(Name(path)) # ".py" THEN Returned(<<>>)
    ELSE IF AstParse(c) # "tree" THEN Raised
    ELSE Returned(Flatten([i \in 1..Len(Nodes(c)) |->
                              Visit(Nodes(c)[i], Name(path))]))

\* ASTAnalyzer.analyze: every exception of the parse or the visit is caught.
ASTAnalyze(path, c) ==
    IF Suffix(Name(path)) # ".py" THEN Returned(<<>>)
    ELSE IF AstParse(c) # "tree" THEN Returned(<<>>)
    ELSE Returned(Flatten([i \in 1..Len(Nodes(c)) |->
                              Visit(Nodes(c)[i], Name(path))]))

\* Units of a confidence value: 1/20000 (0.7 is 14000, 0.95 is 19000), so
\* that entropy / 8.0 of an entropy in hundredths is exact.
Min(a, b) == IF a < b THEN a ELSE b
Max(a, b) == IF a > b THEN a ELSE b

\* Mutant of CalculateConfidence: the bonus of a long value is 0.5 and the
\* result is not clamped.
CalculateConfidence_LongBonusUnclamped(ln) ==
    14000
    + (IF ln.keyAssign THEN 3000 ELSE 0)
    + (IF ln.valueLen >= 32 THEN 10000 ELSE 0)
    - (IF ln.valueFalsePositive THEN 6000 ELSE 0)

\* SecretAnalyzer._calculate_confidence
CalculateConfidence(ln) ==
    LET confidence ==
            14000
            + (IF ln.keyAssign THEN 3000 ELSE 0)
            + (IF ln.valueLen >= 32 THEN 2000 ELSE 0)
            - (IF ln.valueFalsePositive THEN 6000 ELSE 0)
    IN  Min(20000, Max(2000, confidence))

\* a finding of SecretAnalyzer; pass is a history field naming the pass
\* that emitted it
SecretIssue(level, description, line_num, confidence, pass) ==
    [level |-> level, category |-> "hardcoded_secret",
     description |-> description, line |-> line_num,
     confidence |-> confidence, pass |-> pass]

\* SecretAnalyzer._check_patterns
SecretCheckPatterns(ln, line_num) ==
    LET kept == SelectSeq(ln.matches, LAMBDA mt : ~mt.falsePositive)
    IN  [i \in 1..Len(kept) |->
            SecretIssue(kept[i].severity, kept[i].description, line_num,
                        CalculateConfidence(ln), "pattern")]

\* SecretAnalyzer._check_entropy: the loop over the candidates, issues being
\* the list local to _check_entropy
RECURSIVE CheckEntropyLoop(_, _, _, _, _)
CheckEntropyLoop(candidates, issues, ln, line_num, cfg) ==
    IF candidates = <<>> THEN issues
    ELSE LET candidate == Head(candidates)
             emit ==
                /\ candidate.length >= cfg.minLength
                /\ candidate.entropy >= cfg.minEntropy
                /\ ln.likelyAssign
                /\ ~\E i \in 1..Len(issues) : issues[i].line = line_num
         IN  CheckEntropyLoop(
                 Tail(candidates),
                 IF emit
                 THEN Append(issues,
                             SecretIssue("HIGH", "High-entropy string",
                                         line_num,
                                         Min(19000, candidate.entropy * 25),
                                         "entropy"))
                 ELSE issues,
                 ln, line_num, cfg)

\* SecretAnalyzer._check_entropy
CheckEntropy(ln, line_num, cfg) ==
    CheckEntropyLoop(ln.candidates, <<>>, ln, line_num, cfg)


\* Mutant of AnalyzeLine: a line that holds a false-positive token still
\* goes through both passes.
AnalyzeLine_NoLineFilter(ln, line_num, cfg) ==
    IF ln.blank THEN <<>>
    ELSE SecretCheckPatterns(ln, line_num) \o CheckEntropy(ln, line_num, cfg)

\* SecretAnalyzer._analyze_line
AnalyzeLine(ln, line_num, cfg) ==
    IF ln.blank THEN <<>>
    ELSE IF ln.falsePositive THEN <<>>
    ELSE SecretCheckPatterns(ln, line_num) \o CheckEntropy(ln, line_num, cfg)

\* SecretAnalyzer.analyze
SecretAnalyze(path, c, cfg) ==
    IF ~cfg.secretEnabled THEN Returned(<<>>)
    ELSE LET issues == Flatten([i \in 1..Len(Lines(c)) |->
                                   AnalyzeLine(Lines(c)[i], i, cfg)])
         IN  Returned([i \in 1..Len(issues) |->
                          SecurityIssue(issues[i].level, issues[i].category,
                                        Name(path), "Secret")])

\* DependencyAnalyzer.analyze: only SyntaxError is caught around ast.parse.
DependencyAnalyze(path, c, cfg) ==
    IF ~cfg.depEnabled THEN Returned(<<>>)
    ELSE IF Suffix(Name(path)) # ".py" THEN Returned(<<>>)
    ELSE IF AstParse(c) = "SyntaxError" THEN Returned(<<>>)
    ELSE IF AstParse(c) # "tree" THEN Raised
    ELSE IF c = "vulndep"
         THEN Returned(<<SecurityIssue("HIGH", "vulnerable_dependency",
                                       Name(path), "Dependency")>>)
         ELSE Returned(<<>>)

\* TAINT_SOURCES and TAINT_SINKS; `pattern in func_name` is equality for the
\* function names of the exemplars
TAINT_SOURCES ==
    {"input", "sys.argv", "os.environ.get", "os.getenv", "request.args.get",
     "request.form.get", "request.json", "open"}
TAINT_SINKS ==
    {"eval", "exec", "os.system", "os.popen", "subprocess.call",
     "subprocess.run", "subprocess.Popen", "compile", "__import__"}

\* TaintAnalyzer._get_sink_category, as the category of the finding
SinkCategory(dotted) ==
    CASE dotted \in {"eval", "exec", "compile"} -> "tainted_code_execution"
      [] dotted = "__import__"                   -> "tainted_dynamic_import"
      [] OTHER                                   -> "tainted_command_execution"

\* TaintAnalyzer._is_taint_source
IsTaintSource(e) ==
    \/ (e.type = "Call" /\ e.func.dotted \in TAINT_SOURCES)
    \/ (e.type = "Name" /\ e.id = "input")

\* A Dict[str, int] is a function from its keys; {} is the empty one.
EmptyDict == <<>>

\* TaintAnalyzer._is_tainted
IsTainted(e, tainted) ==
    \/ (e.type = "Name" /\ e.id \in DOMAIN tainted)
    \/ IsTaintSource(e)

\* Mutant of TrackAssignment: an assignment from anything but a taint
\* source removes the name from the map.
TrackAssignment_Untaints(n, tainted) ==
    IF IsTaintSource(n.value)
    THEN [x \in DOMAIN tainted \cup {n.target} |->
             IF x = n.target THEN n.lineno ELSE tainted[x]]
    ELSE [x \in DOMAIN tainted \ {n.target} |-> tainted[x]]

\* TaintAnalyzer._track_assignment: tainted_vars[target.id] = node.lineno
TrackAssignment(n, tainted) ==
    IF IsTaintSource(n.value)
    THEN [x \in DOMAIN tainted \cup {n.target} |->
             IF x = n.target THEN n.lineno ELSE tainted[x]]
    ELSE tainted

\* the finding of TaintAnalyzer._check_sink, with its confidence 0.85 in
\* units of 1/20000
TaintIssue(category, filename) ==
    [level |-> "HIGH", category |-> category, file |-> filename,
     src |-> "Taint", confidence |-> 17000]

\* Mutant of CheckSink: the loop over the arguments has no break.
CheckSink_NoBreak(n, tainted, filename) ==
    IF n.func.dotted \in TAINT_SINKS
    THEN Flatten([i \in 1..Len(n.args) |->
                     IF IsTainted(n.args[i], tainted)
                     THEN <<TaintIssue(SinkCategory(n.func.dotted),
                                       filename)>>
                     ELSE <<>>])
    ELSE <<>>

\* TaintAnalyzer._check_sink
CheckSink(n, tainted, filename) ==
    IF /\ n.func.dotted \in TAINT_SINKS
       /\ \E i \in 1..Len(n.args) : IsTainted(n.args[i], tainted)
    THEN <<TaintIssue(SinkCategory(n.func.dotted), filename)>>
    ELSE <<>>

\* TaintAnalyzer.analyze, lines 87-95: the walk; the value is the issues
\* found and the tainted variables at its end
RECURSIVE TaintWalk(_, _, _)
TaintWalk(nodes, tainted, filename) ==
    IF nodes = <<>> THEN [issues |-> <<>>, vars |-> tainted]
    ELSE LET n == Head(nodes)
             tainted1 == IF n.type = "Assign" THEN TrackAssignment(n, tainted)
                      ELSE tainted
             found == IF n.type = "Call" THEN CheckSink(n, tainted, filename)
                      ELSE <<>>
             rest == TaintWalk(Tail(nodes), tainted1, filename)
         IN  [issues |-> found \o rest.issues, vars |-> rest.vars]

\* Mutant of NewTaintedVars: the map of the previous call is kept.
NewTaintedVars_Kept == tainted_vars

\* TaintAnalyzer.analyze, line 84: tainted_vars = {}
NewTaintedVars == EmptyDict

\* TaintAnalyzer.analyze reaches the walk (lines 72-81 did not return)
TaintWalks(path, c, m) ==
    /\ Suffix(Name(path)) = ".py"
    /\ m # "FAST"
    /\ AstParse(c) = "tree"

\* TaintAnalyzer.analyze: only SyntaxError is caught around ast.parse.
TaintAnalyze(path, c, m) ==
    IF Suffix(Name(path)) # ".py" THEN Returned(<<>>)
    ELSE IF m = "FAST" THEN Returned(<<>>)
    ELSE IF AstParse(c) = "SyntaxError" THEN Returned(<<>>)
    ELSE IF AstParse(c) # "tree" THEN Raised
    ELSE Returned(TaintWalk(Nodes(c), NewTaintedVars, Name(path)).issues)

\* analyzer.analyze(file_path, content), dispatched on the analyzer
Analyze(a, path, c, m, cfg) ==
    CASE a = "Regex"      -> RegexAnalyze(path, c, m)
      [] a = "AST"        -> ASTAnalyze(path, c)
      [] a = "Secret"     -> SecretAnalyze(path, c, cfg)
      [] a = "Dependency" -> DependencyAnalyze(path, c, cfg)
      [] a = "Taint"      -> TaintAnalyze(path, c, m)

----------------------------------------------------------------------------
(* scanner.py *)

\* SkillScanner._init_analyzers raises: the constructors of lines 40 and 44
\* are called outside any try.
InitRaises(m, failing) ==
    \/ "Regex" \in failing
    \/ (m \in {"STANDARD", "DEEP"} /\ "AST" \in failing)

\* Mutant of InitAnalyzers: DEEP mode leaves the Secret analyzer out.
InitAnalyzers_DeepDropsSecret(m, failing) ==
    <<"Regex">>
    \o (IF m \in {"STANDARD", "DEEP"} THEN <<"AST">> ELSE <<>>)
    \o (IF m # "DEEP" /\ "Secret" \notin failing THEN <<"Secret">> ELSE <<>>)
    \o (IF "Dependency" \notin failing THEN <<"Dependency">> ELSE <<>>)
    \o (IF m = "DEEP" /\ "Taint" \notin failing THEN <<"Taint">> ELSE <<>>)

\* Mutant of InitAnalyzers: an analyzer whose constructor raised is still
\* appended.
InitAnalyzers_KeepsFailing(m, failing) ==
    <<"Regex">>
    \o (IF m \in {"STANDARD", "DEEP"} THEN <<"AST">> ELSE <<>>)
    \o <<"Secret", "Dependency">>
    \o (IF m = "DEEP" THEN <<"Taint">> ELSE <<>>)

\* SkillScanner._init_analyzers; failing = the analyzers whose constructor
\* raises (only Secret, Dependency and Taint are constructed under try).
InitAnalyzers(m, failing) ==
    <<"Regex">>
    \o (IF m \in {"STANDARD", "DEEP"} THEN <<"AST">> ELSE <<>>)
    \o (IF "Secret" \notin failing THEN <<"Secret">> ELSE <<>>)
    \o (IF "Dependency" \notin failing THEN <<"Dependency">> ELSE <<>>)
    \o (IF m = "DEEP" /\ "Taint" \notin failing THEN <<"Taint">> ELSE <<>>)

\* Mutant of ShouldIgnore: no path is ever ignored.
ShouldIgnore_Never(path) == FALSE

\* SkillScanner._should_ignore: re.search of every ignore pattern in
\* str(path), the full path of the file.
ShouldIgnore(path) ==
    \E pattern \in IGNORE_PATTERNS :
        \E i \in 1..Len(path) : pattern \in PatternsFoundIn(path[i])

\* Path.__lt__: comparison of the parts, component by component
RECURSIVE PathLess(_, _)
PathLess(p, q) ==
    IF p = <<>> THEN q # <<>>
    ELSE IF q = <<>> THEN FALSE
    ELSE IF Head(p) = Head(q) THEN PathLess(Tail(p), Tail(q))
    ELSE Rank(Head(p)) < Rank(Head(q))

\* Mutant of Sorted: the paths are listed in descending order.
RECURSIVE Sorted_Descending(_)
Sorted_Descending(S) ==
    IF S = {} THEN <<>>
    ELSE LET most == CHOOSE p \in S : \A q \in S \ {p} : PathLess(q, p)
         IN  <<most>> \o Sorted_Descending(S \ {most})

\* sorted(set(files))
RECURSIVE Sorted(_)
Sorted(S) ==
    IF S = {} THEN <<>>
    ELSE LET least == CHOOSE p \in S : \A q \in S \ {p} : PathLess(p, q)
         IN  <<least>> \o Sorted(S \ {least})

\* SkillScanner._get_files_to_scan, as paths relative to the root
GetFilesToScan(root, t) ==
    LET found == {p \in RelPaths :
                     /\ t[p].present
                     /\ ~ShouldIgnore(root \o p)
                     /\ Suffix(Name(p)) \in SCAN_EXTENSIONS}
        skill_md == <<"SKILL.md">>
    IN  Sorted(found \cup (IF t[skill_md].present THEN {skill_md} ELSE {}))

\* History records
Event(ev, path, an) == [ev |-> ev, file |-> path, an |-> an]

\* The outcome of the scan() call that just ended, kept by its caller.
NoPrev == [valid |-> FALSE, raised |-> FALSE, sink |-> "none",
           result |-> NoResult, mode |-> "STANDARD", analyzers |-> <<>>,
           ctorRaises |-> {}]
Outcome ==
    IF pc \in {"done", "raised"}
    THEN [valid |-> TRUE, raised |-> (pc = "raised"), sink |-> sink,
          result |-> result, mode |-> mode, analyzers |-> analyzers,
          ctorRaises |-> ctorRaises]
    ELSE prev

\* scan(), lines 112-129: the call, the existence check and the discovery
StartScan(s) ==
    /\ pc \in {"idle", "done", "raised"}
    /\ scanNo < MaxScans
    /\ scanNo' = scanNo + 1
    /\ prev' = Outcome
    /\ sink' = s
    /\ sinkCalls' = <<>>
    /\ log' = <<>>
    /\ content' = "benign"
    /\ aidx' = 1
    /\ file_findings' = <<>>
    /\ all_findings' = <<>>
    /\ files_scanned' = 0
    /\ idx' = 1
    /\ IF ~rootExists
       THEN /\ result' = ScanResult(0, <<>>, 0)
            /\ files' = <<>>
            /\ total_files' = 0
            /\ elapsed' = 0
            /\ pc' = "done"
       ELSE /\ result' = NoResult
            /\ files' = GetFilesToScan(rootPath, tree)
            /\ total_files' = Len(GetFilesToScan(rootPath, tree))
            /\ elapsed' = 1
            /\ pc' = "read"
    /\ UNCHANGED <<objVars, envVars, resVars, unitVars, tainted_vars>>

\* Mutant of ReadFile: a file whose read failed is still counted.
ReadFile_CountsFailed ==
    /\ pc = "read"
    /\ idx <= Len(files)
    /\ elapsed' = elapsed + 1
    /\ IF tree[files[idx]].readable
       THEN /\ content' = tree[files[idx]].content
            /\ file_findings' = <<>>
            /\ aidx' = 1
            /\ pc' = "analyze"
            /\ log' = Append(log, Event("read", files[idx], ""))
            /\ UNCHANGED <<idx, files_scanned>>
       ELSE /\ idx' = idx + 1
            /\ files_scanned' = files_scanned + 1
            /\ log' = Append(log, Event("read_failed", files[idx], ""))
            /\ UNCHANGED <<content, file_findings, aidx, pc>>
    /\ UNCHANGED <<objVars, envVars, cliVars, resVars, unitVars, sink, files,
                   total_files, all_findings, result, sinkCalls, scanNo,
                   prev, tainted_vars>>

\* scan(), lines 132-138: read the next file; a failed read skips the file
ReadFile ==
    /\ pc = "read"
    /\ idx <= Len(files)
    /\ elapsed' = elapsed + 1
    /\ IF tree[files[idx]].readable
       THEN /\ content' = tree[files[idx]].content
            /\ file_findings' = <<>>
            /\ aidx' = 1
            /\ pc' = "analyze"
            /\ log' = Append(log, Event("read", files[idx], ""))
            /\ UNCHANGED idx
       ELSE /\ idx' = idx + 1
            /\ log' = Append(log, Event("read_failed", files[idx], ""))
            /\ UNCHANGED <<content, file_findings, aidx, pc>>
    /\ UNCHANGED <<objVars, envVars, cliVars, resVars, unitVars, sink, files,
                   total_files, all_findings, files_scanned, result,
                   sinkCalls, scanNo, prev, tainted_vars>>

\* The tainted_vars of TaintAnalyzer.analyze when the call of analyzer a
\* on a file is over (a call that does not reach the walk makes none).
TaintedVarsAfter(a, path, c, m) ==
    IF a = "Taint" /\ TaintWalks(path, c, m)
    THEN TaintWalk(Nodes(c), NewTaintedVars, Name(path)).vars
    ELSE tainted_vars

\* Mutant of RunAnalyzer: the exception of an analyzer leaves scan().
RunAnalyzer_Propagates ==
    /\ pc = "analyze"
    /\ aidx <= Len(analyzers)
    /\ elapsed' = elapsed + 1
    /\ LET a == analyzers[aidx]
           r == Analyze(a, files[idx], content, mode, config)
       IN  IF r.raised
           THEN /\ log' = Append(log, Event("analyzer_raised", files[idx], a))
                /\ pc' = "raised"
                /\ UNCHANGED file_findings
           ELSE /\ log' = Append(log, Event("analyzed", files[idx], a))
                /\ file_findings' = file_findings \o r.issues
                /\ UNCHANGED pc
    /\ tainted_vars' = TaintedVarsAfter(analyzers[aidx], files[idx], content,
                                        mode)
    /\ aidx' = aidx + 1
    /\ UNCHANGED <<objVars, envVars, cliVars, resVars, unitVars, sink, files,
                   total_files, idx, content, all_findings, files_scanned,
                   result, sinkCalls, scanNo, prev>>

\* scan(), lines 141-147: one analyzer on the current file
RunAnalyzer ==
    /\ pc = "analyze"
    /\ aidx <= Len(analyzers)
    /\ elapsed' = elapsed + 1
    /\ LET a == analyzers[aidx]
           r == Analyze(a, files[idx], content, mode, config)
       IN  IF r.raised
           THEN /\ log' = Append(log, Event("analyzer_raised", files[idx], a))
                /\ UNCHANGED file_findings
           ELSE /\ log' = Append(log, Event("analyzed", files[idx], a))
                /\ file_findings' = file_findings \o r.issues
    /\ tainted_vars' = TaintedVarsAfter(analyzers[aidx], files[idx], content,
                                        mode)
    /\ aidx' = aidx + 1
    /\ UNCHANGED <<objVars, envVars, cliVars, resVars, unitVars, pc, sink,
                   files, total_files, idx, content, all_findings,
                   files_scanned, result, sinkCalls, scanNo, prev>>

\* progress_callback(file_path.name, files_scanned, total_files,
\*                   len(all_findings))
SinkArgs(name, current, total, findings) ==
    [name |-> name, current |-> current, total |-> total,
     findings |-> findings]

\* Mutant of FinishFile: the callback is given the loop position instead of
\* the scanned-file counter.
FinishFile_ReportsIndex ==
    /\ pc = "analyze"
    /\ aidx > Len(analyzers)
    /\ elapsed' = elapsed + 1
    /\ all_findings' = all_findings \o file_findings
    /\ files_scanned' = files_scanned + 1
    /\ IF sink = "none"
       THEN /\ idx' = idx + 1
            /\ pc' = "read"
            /\ UNCHANGED <<sinkCalls, log>>
       ELSE /\ sinkCalls' = Append(sinkCalls,
                                SinkArgs(Name(files[idx]), idx,
                                         total_files, Len(all_findings')))
            /\ log' = Append(log, Event("sink", files[idx], ""))
            /\ \E fails \in (IF sink = "faulty" THEN BOOLEAN ELSE {FALSE}) :
                 IF fails
                 THEN pc' = "raised" /\ UNCHANGED idx
                 ELSE pc' = "read" /\ idx' = idx + 1
    /\ UNCHANGED <<objVars, envVars, cliVars, resVars, unitVars, sink, files,
                   total_files, content, aidx, file_findings, result,
                   scanNo, prev, tainted_vars>>

\* scan(), lines 149-159: merge the file's findings, count the file, report
\* progress; an exception of the callback leaves scan().
FinishFile ==
    /\ pc = "analyze"
    /\ aidx > Len(analyzers)
    /\ elapsed' = elapsed + 1
    /\ all_findings' = all_findings \o file_findings
    /\ files_scanned' = files_scanned + 1
    /\ IF sink = "none"
       THEN /\ idx' = idx + 1
            /\ pc' = "read"
            /\ UNCHANGED <<sinkCalls, log>>
       ELSE /\ sinkCalls' = Append(sinkCalls,
                                SinkArgs(Name(files[idx]), files_scanned',
                                         total_files, Len(all_findings')))
            /\ log' = Append(log, Event("sink", files[idx], ""))
            /\ \E fails \in (IF sink = "faulty" THEN BOOLEAN ELSE {FALSE}) :
                 IF fails
                 THEN pc' = "raised" /\ UNCHANGED idx
                 ELSE pc' = "read" /\ idx' = idx + 1
    /\ UNCHANGED <<objVars, envVars, cliVars, resVars, unitVars, sink, files,
                   total_files, content, aidx, file_findings, result,
                   scanNo, prev, tainted_vars>>

\* scan(), lines 161-168: the loop is over, return the ScanResult
Return ==
    /\ pc = "read"
    /\ idx > Len(files)
    /\ result' = ScanResult(files_scanned, all_findings, elapsed)
    /\ pc' = "done"
    /\ UNCHANGED <<objVars, envVars, cliVars, resVars, unitVars, sink, files,
                   total_files, idx, content, aidx, file_findings,
                   all_findings, files_scanned, elapsed, sinkCalls, log,
                   scanNo, prev, tainted_vars>>

\* A caller of the Python API calls scanner.scan(path, progress_callback).
CallScan ==
    /\ cliPc = "none"
    /\ \E s \in {"none", "ok", "faulty"} : StartScan(s)
    /\ UNCHANGED cliVars

----------------------------------------------------------------------------
(* Spec: a constructed SkillScanner used through the API *)

ScanIdle ==
    /\ pc = "idle"
    /\ sink = "none"
    /\ files = <<>>
    /\ total_files = 0
    /\ idx = 1
    /\ content = "benign"
    /\ aidx = 1
    /\ file_findings = <<>>
    /\ all_findings = <<>>
    /\ files_scanned = 0
    /\ elapsed = 0
    /\ result = NoResult
    /\ sinkCalls = <<>>
    /\ log = <<>>
    /\ scanNo = 0
    /\ prev = NoPrev
    /\ tainted_vars = EmptyDict

NoArgs == [mode |-> "STANDARD", progress |-> FALSE, configFile |-> "none"]

CliIdle ==
    /\ cliPc = "none"
    /\ cliArgs = NoArgs
    /\ exitCode = -1
    /\ stderr = <<>>

\* value of an accessor that was not read since findings last changed
NoSummary == [k \in {"HIGH", "MEDIUM", "LOW", "INFO"} |-> -1]

ResIdle ==
    /\ rFindings = <<>>
    /\ rSummary = NoSummary
    /\ rAssessment = "unread"

\* no node and no line is under analysis
NoNode == [type |-> "None"]
UnitIdle ==
    /\ node = NoNode
    /\ line = PlainLine
    /\ walkPos = 0

\* The trees a scan is given: when the root does not exist nothing is
\* below it.
EmptyTree == [p \in RelPaths |-> Absent]

Init ==
    /\ mode \in AnalysisMode
    /\ config \in {NoConfig, Config(FALSE, TRUE)}
    /\ ctorRaises = {}
    /\ analyzers = InitAnalyzers(mode, ctorRaises)
    /\ rootPath \in RootPaths
    /\ rootExists \in BOOLEAN
    /\ tree \in (IF rootExists THEN Trees ELSE {EmptyTree})
    /\ ScanIdle
    /\ CliIdle
    /\ ResIdle
    /\ UnitIdle

Next ==
    \/ CallScan
    \/ ReadFile
    \/ RunAnalyzer
    \/ FinishFile
    \/ Return

Spec == Init /\ [][Next]_vars

----------------------------------------------------------------------------
(* Helpers of the properties *)

Range(seq) == {seq[i] : i \in 1..Len(seq)}

RECURSIVE Count(_, _)
\* number of events of kind ev in a history
Count(h, ev) ==
    IF h = <<>> THEN 0
    ELSE (IF Head(h).ev = ev THEN 1 ELSE 0) + Count(Tail(h), ev)

\* the analyzer calls made on a file, in order
CallsOn(f) ==
    SelectSeq(log, LAMBDA e : e.file = f
                              /\ e.ev \in {"analyzed", "analyzer_raised"})

\* the analyzer loop of file f is over
LoopOver(f) == ~(pc = "analyze" /\ aidx <= Len(analyzers) /\ files[idx] = f)

\* the file was read and its findings were merged
Merged(f) ==
    /\ \E i \in 1..Len(log) : log[i].ev = "read" /\ log[i].file = f
    /\ ~(pc = "analyze" /\ files[idx] = f)

\* what the analyzers that do not raise return for a file, in activation order
RECURSIVE Expected(_, _)
Expected(as, f) ==
    IF as = <<>> THEN <<>>
    ELSE LET r == Analyze(Head(as), f, tree[f].content, mode, config)
         IN  (IF r.raised THEN <<>> ELSE r.issues) \o Expected(Tail(as), f)

FindingsOf(findings, f) == SelectSeq(findings, LAMBDA x : x.file = Name(f))

----------------------------------------------------------------------------
(* C1 *)

\* C1 (as claimed): the active analyzers are {Regex} in FAST mode,
\* {Regex, AST, Secret, Dependency} in STANDARD mode and all five in DEEP
\* mode, and the result of a FAST scan holds no hardcoded_secret or
\* vulnerable_dependency finding.
C1_AnalyzersFixedByMode ==
    /\ mode = "FAST" => Range(analyzers) = {"Regex"}
    /\ mode = "STANDARD"
         => Range(analyzers) = {"Regex", "AST", "Secret", "Dependency"}
    /\ mode = "DEEP"
         => Range(analyzers) = {"Regex", "AST", "Secret", "Dependency", "Taint"}
    /\ (mode = "FAST" /\ pc = "done")
         => \A i \in 1..Len(result.findings) :
               result.findings[i].category
                   \notin {"hardcoded_secret", "vulnerable_dependency"}

----------------------------------------------------------------------------
(* C2 *)

\* C2: an exception of an analyzer never leaves scan (scan is only ever left
\* by an exception right after a progress-sink call); once the analyzer loop
\* of a file is over every active analyzer was called on it exactly once, in
\* activation order, whether or not an earlier one raised; once the file is
\* merged the findings kept for it are those of the analyzers that returned;
\* the file is counted; and after the last file the scan returns a result.
C2_AnalyzerFaultContained ==
    /\ pc = "raised" => (log # <<>> /\ log[Len(log)].ev = "sink")
    /\ \A i \in 1..Len(log) :
         log[i].ev = "analyzer_raised" =>
           LET f == log[i].file IN
           /\ LoopOver(f) =>
                /\ Len(CallsOn(f)) = Len(analyzers)
                /\ \A j \in 1..Len(analyzers) : CallsOn(f)[j].an = analyzers[j]
           /\ Merged(f) =>
                /\ FindingsOf(all_findings, f) = Expected(analyzers, f)
                /\ files_scanned >= 1
                /\ files_scanned = Count(log, "read")
                                   - (IF pc = "analyze" THEN 1 ELSE 0)
           /\ (Merged(f) /\ pc # "raised") =>
                \A k \in 1..Len(files) : files[k] = f => idx > k
    /\ (pc = "done" /\ rootExists) =>
         /\ result.returned
         /\ \A k \in 1..Len(files) :
              tree[files[k]].readable =>
                FindingsOf(result.findings, files[k])
                    = Expected(analyzers, files[k])

\* C2 witness: a scan returned although an analyzer raised on a file; a later
\* analyzer ran on that file and a finding of another analyzer was kept.
C2_Witness ==
    /\ pc = "done"
    /\ \E i \in 1..Len(log) :
         /\ log[i].ev = "analyzer_raised"
         /\ i < Len(log)
         /\ log[i + 1].ev \in {"analyzed", "analyzer_raised"}
         /\ log[i + 1].file = log[i].file
         /\ FindingsOf(result.findings, log[i].file) # <<>>
         /\ \E j \in i + 1..Len(log) :
               log[j].ev = "read" /\ log[j].file # log[i].file

----------------------------------------------------------------------------
(* C3 *)

\* every file of the tree lies inside the dependency-cache directory
\* node_modules below the root (no file at all included)
OnlyIgnoredDirFiles ==
    \A p \in RelPaths : tree[p].present => (Len(p) > 1 /\ p[1] = "node_modules")

\* C3: a scan of a root that does not exist, of an empty directory or of a
\* directory holding only files under an ignored directory is never left by
\* an exception, reports no progress, and returns a ScanResult with
\* files_scanned = 0 and findings = []; for the missing root scan_time = 0.
C3_EmptyScan ==
    (scanNo >= 1 /\ (~rootExists \/ OnlyIgnoredDirFiles)) =>
        /\ pc # "raised"
        /\ sinkCalls = <<>>
        /\ files_scanned = 0
        /\ pc = "done" =>
             /\ result.returned
             /\ result.files_scanned = 0
             /\ result.findings = <<>>
        /\ (pc = "done" /\ ~rootExists) => result.scan_time = 0

\* C3 witness: a scan of a tree whose only file is under node_modules
\* returned, with a progress sink supplied.
C3_Witness ==
    /\ pc = "done"
    /\ rootExists
    /\ tree[<<"node_modules", "dep.js">>].present
    /\ OnlyIgnoredDirFiles
    /\ sink = "faulty"
    /\ result.returned

----------------------------------------------------------------------------
(* C4 *)

\* C4: a discovered file whose read failed has no analyzer call, no finding
\* and no progress report, is not counted in files_scanned (which counts the
\* files read and merged), does not end the scan (the loop moves on; only a
\* progress-sink call leaves scan by an exception), and the result returned
\* counts exactly the readable discovered files.
C4_UnreadableSkipped ==
    \A i \in 1..Len(log) :
      log[i].ev = "read_failed" =>
        LET f == log[i].file IN
        /\ CallsOn(f) = <<>>
        /\ FindingsOf(all_findings, f) = <<>>
        /\ \A j \in 1..Len(log) : log[j].file = f => j = i
        /\ \A k \in 1..Len(sinkCalls) : sinkCalls[k].name # Name(f)
        /\ files_scanned = Count(log, "read")
                           - (IF pc = "analyze" THEN 1 ELSE 0)
        /\ files_scanned + Count(log, "read_failed") <= Len(files)
        /\ \A k \in 1..Len(files) : files[k] = f => idx > k
        /\ pc = "raised" => log[Len(log)].ev = "sink"
        /\ pc = "done" =>
             /\ result.returned
             /\ result.files_scanned
                  = Cardinality({k \in 1..Len(files) : tree[files[k]].readable})
             /\ FindingsOf(result.findings, f) = <<>>

\* C4 witness: a scan returned after the read of one file failed and a
\* following file was read, analyzed and counted.
C4_Witness ==
    /\ pc = "done"
    /\ \E i \in 1..Len(log) :
         /\ log[i].ev = "read_failed"
         /\ \E j \in i + 1..Len(log) : log[j].ev = "analyzed"
    /\ result.files_scanned >= 1
    /\ result.findings # <<>>

----------------------------------------------------------------------------
(* C5 *)

\* what every progress report carries, whatever the files
SinkReports ==
    /\ Len(sinkCalls) = files_scanned
    /\ Count(log, "sink") = Len(sinkCalls)
    /\ \A k \in 1..Len(sinkCalls) :
         /\ sinkCalls[k].current = k
         /\ sinkCalls[k].total = Len(files)
         /\ sinkCalls[k].findings <= Len(all_findings)
         /\ k > 1 => sinkCalls[k - 1].findings <= sinkCalls[k].findings
    /\ (sinkCalls # <<>> /\ pc # "analyze") =>
         sinkCalls[Len(sinkCalls)].findings = Len(all_findings)
    \* each report directly follows the calls of all analyzers on its file
    /\ \A i \in 1..Len(log) :
         log[i].ev = "sink" =>
           /\ i > Len(analyzers)
           /\ \A j \in 1..Len(analyzers) :
                /\ log[i - Len(analyzers) + j - 1].file = log[i].file
                /\ log[i - Len(analyzers) + j - 1].an = analyzers[j]

\* C5 (as claimed): with a progress sink, the k-th report carries
\* files-done = k, files-total = number of discovered files and the
\* cumulative finding count, and when the scan has returned the last report
\* carries files-done = files-total.
C5_LastReportIsTotal ==
    sink # "none" =>
        /\ SinkReports
        /\ (pc = "done" /\ sinkCalls # <<>>) =>
             sinkCalls[Len(sinkCalls)].current
                 = sinkCalls[Len(sinkCalls)].total

\* C5 (amended): as above, but when the scan has returned the last report
\* carries files-done = files_scanned = the number of discovered files that
\* could be read, which is files-total only if every read succeeded.
C5_LastReportIsScanned ==
    sink # "none" =>
        /\ SinkReports
        /\ (pc = "done" /\ rootExists) =>
             /\ Len(sinkCalls)
                  = Cardinality({k \in 1..Len(files) : tree[files[k]].readable})
             /\ sinkCalls # <<>> =>
                  /\ sinkCalls[Len(sinkCalls)].current = result.files_scanned
                  /\ (sinkCalls[Len(sinkCalls)].current
                        = sinkCalls[Len(sinkCalls)].total)
                     <=> (\A k \in 1..Len(files) : tree[files[k]].readable)

\* C5 witness: a scan with a sink returned after two reports although three
\* files were discovered.
C5_Witness ==
    /\ pc = "done"
    /\ sink # "none"
    /\ Len(sinkCalls) = 2
    /\ sinkCalls[1].current = 1
    /\ sinkCalls[2].total = 3
    /\ sinkCalls[2].findings > sinkCalls[1].findings

----------------------------------------------------------------------------
(* C6 *)

\* C6 (as claimed): a scan called with a progress sink on the tree and mode
\* of an earlier scan without sink returns a ScanResult with the same
\* files_scanned and findings, whatever the sink does.
C6_SinkObservational ==
    (pc \in {"done", "raised"} /\ prev.valid /\ ~prev.raised
         /\ prev.sink = "none" /\ sink # "none") =>
        /\ pc = "done"
        /\ result.returned
        /\ result.files_scanned = prev.result.files_scanned
        /\ result.findings = prev.result.findings

----------------------------------------------------------------------------
(* SpecResult: a ScanResult value and its derived accessors (types.py) *)

\* A ScanResult is built over a findings list one finding longer (the
\* findings of the unit tests' factory: only the severity varies).
AddFinding ==
    /\ Len(rFindings) < MaxFindings
    /\ \E lv \in Severity :
         rFindings' = Append(rFindings,
                             SecurityIssue(lv, "command_injection",
                                           "test.py", ""))
    /\ rSummary' = NoSummary
    /\ rAssessment' = "unread"
    /\ UNCHANGED <<objVars, envVars, scanVars, cliVars, unitVars>>

\* result.risk_summary is read
ReadRiskSummary ==
    /\ rSummary' = risk_summary(rFindings)
    /\ UNCHANGED <<rFindings, rAssessment>>
    /\ UNCHANGED <<objVars, envVars, scanVars, cliVars, unitVars>>

\* result.security_assessment is read
ReadAssessment ==
    /\ rAssessment' = security_assessment(rFindings)
    /\ UNCHANGED <<rFindings, rSummary>>
    /\ UNCHANGED <<objVars, envVars, scanVars, cliVars, unitVars>>

InitResult ==
    /\ mode = "STANDARD"
    /\ config = NoConfig
    /\ ctorRaises = {}
    /\ analyzers = InitAnalyzers("STANDARD", ctorRaises)
    /\ rootPath = <<"skills", "demo">>
    /\ rootExists = FALSE
    /\ tree = EmptyTree
    /\ ScanIdle
    /\ CliIdle
    /\ ResIdle
    /\ UnitIdle

NextResult ==
    \/ AddFinding
    \/ ReadRiskSummary
    \/ ReadAssessment

SpecResult == InitResult /\ [][NextResult]_vars

\* number of findings of a severity, counted over the positions of the list
NumberOf(lv) ==
    Cardinality({i \in 1..Len(rFindings) : rFindings[i].level = lv})

----------------------------------------------------------------------------
(* C7 *)

\* C7: the assessment is decided by the HIGH and MEDIUM counts alone, first
\* matching rule: HIGH > 0 critical; else MEDIUM > 5 warning; else
\* MEDIUM > 0 caution (MEDIUM in 1..5 caution, MEDIUM = 6 warning); else
\* safe; and it equals the assessment of the same result without its LOW
\* and INFO findings.
C7_AssessmentTiers ==
    rAssessment # "unread" =>
        /\ NumberOf("HIGH") > 0 => rAssessment = "CRITICAL"
        /\ (NumberOf("HIGH") = 0 /\ NumberOf("MEDIUM") > 5)
             => rAssessment = "WARNING"
        /\ (NumberOf("HIGH") = 0 /\ NumberOf("MEDIUM") \in 1..5)
             => rAssessment = "CAUTION"
        /\ (NumberOf("HIGH") = 0 /\ NumberOf("MEDIUM") = 0)
             => rAssessment = "SAFE"
        /\ rAssessment
             = security_assessment(
                   SelectSeq(rFindings,
                             LAMBDA x : x.level \in {"HIGH", "MEDIUM"}))

\* C7 witness: six MEDIUM findings and one LOW or INFO finding read as
\* warning.
C7_Witness ==
    /\ rAssessment = "WARNING"
    /\ NumberOf("MEDIUM") = 6
    /\ NumberOf("LOW") + NumberOf("INFO") = 1

----------------------------------------------------------------------------
(* C8 *)

\* C8: risk_summary has exactly the keys HIGH, MEDIUM, LOW, INFO, each value
\* is the number of findings of that severity, and the values sum to the
\* length of findings.
C8_RiskSummary ==
    rSummary # NoSummary =>
        /\ DOMAIN rSummary = {"HIGH", "MEDIUM", "LOW", "INFO"}
        /\ \A k \in Severity : rSummary[k] = NumberOf(k)
        /\ rSummary["HIGH"] + rSummary["MEDIUM"] + rSummary["LOW"]
             + rSummary["INFO"] = Len(rFindings)

\* C8 witness: a summary read over findings of every severity, one of them
\* twice, and a summary with a zero entry.
C8_Witness ==
    /\ rSummary # NoSummary
    /\ rSummary["INFO"] = 2
    /\ rSummary["HIGH"] = 1
    /\ rSummary["LOW"] = 0
    /\ Len(rFindings) = 4

----------------------------------------------------------------------------
(* config/validator.py and config/loader.py *)

VALID_MODES == {"fast", "standard", "deep"}
VALID_SEVERITIES == {"HIGH", "MEDIUM", "LOW", "INFO"}

\* The parsed data of a configuration file.  min_entropy is in tenths.
ValidData ==
    [isDict |-> TRUE,               \* the document is a mapping
     scanningMode |-> "standard",   \* scanning.mode
     customSeverity |-> "MEDIUM",   \* rules.custom_patterns[0].severity
     customCompiles |-> TRUE,       \* rules.custom_patterns[0].pattern compiles
     overrideSeverity |-> "HIGH",   \* a value of rules.severity_overrides
     entropyIsNumber |-> TRUE,      \* type of secret_detection.min_entropy
     minEntropy |-> 45,             \* secret_detection.min_entropy
     lengthIsInt |-> TRUE,          \* type of secret_detection.min_length
     minLength |-> 20,              \* secret_detection.min_length
     secretEnabled |-> FALSE,       \* secret_detection.enabled
     depEnabled |-> FALSE]          \* dependency_check.enabled

\* The configuration files of the model, by name.
ConfigFiles ==
    {"missing", "unparseable", "valid", "valid_bounds", "not_dict",
     "bad_mode", "bad_custom_severity", "bad_regex", "bad_override",
     "entropy_string", "entropy_low", "entropy_high", "length_string",
     "length_zero"}

ConfigData(file) ==
    CASE file = "valid_bounds" ->
            [ValidData EXCEPT !.minEntropy = 80, !.minLength = 1,
                              !.secretEnabled = TRUE, !.depEnabled = TRUE]
      [] file = "not_dict"            -> [ValidData EXCEPT !.isDict = FALSE]
      [] file = "bad_mode"            -> [ValidData EXCEPT !.scanningMode = "turbo"]
      [] file = "bad_custom_severity" -> [ValidData EXCEPT !.customSeverity = "CRITICAL"]
      [] file = "bad_regex"           -> [ValidData EXCEPT !.customCompiles = FALSE]
      [] file = "bad_override"        -> [ValidData EXCEPT !.overrideSeverity = "critical"]
      [] file = "entropy_string"      -> [ValidData EXCEPT !.entropyIsNumber = FALSE]
      [] file = "entropy_low"         -> [ValidData EXCEPT !.minEntropy = -1]
      [] file = "entropy_high"        -> [ValidData EXCEPT !.minEntropy = 81]
      [] file = "length_string"       -> [ValidData EXCEPT !.lengthIsInt = FALSE]
      [] file = "length_zero"         -> [ValidData EXCEPT !.minLength = 0]
      [] OTHER                        -> ValidData

\* ConfigValidator.validate: the message of the ConfigValidationError it
\* raises, "" when it returns.
Validate(data) ==
    IF ~data.isDict THEN "Configuration must be a dictionary"
    ELSE IF data.scanningMode \notin VALID_MODES THEN "Invalid scanning mode"
    ELSE IF data.customSeverity \notin VALID_SEVERITIES
         THEN "Invalid severity in custom pattern"
    ELSE IF ~data.customCompiles THEN "Invalid regex pattern"
    ELSE IF data.overrideSeverity \notin VALID_SEVERITIES
         THEN "Invalid severity override"
    ELSE IF ~data.entropyIsNumber THEN "'min_entropy' must be a number"
    ELSE IF ~(0 <= data.minEntropy /\ data.minEntropy <= 80)
         THEN "'min_entropy' must be between 0 and 8"
    ELSE IF ~data.lengthIsInt THEN "'min_length' must be an integer"
    ELSE IF data.minLength < 1 THEN "'min_length' must be at least 1"
    ELSE ""

\* ConfigLoader.load(config_path)
Load(file) ==
    IF file = "missing"
    THEN [raised |-> FALSE, error |-> "", config |-> Config(TRUE, TRUE)]
    ELSE IF file = "unparseable"
    THEN [raised |-> TRUE, error |-> "Failed to load config file",
          config |-> NoConfig]
    ELSE IF Validate(ConfigData(file)) # ""
    THEN [raised |-> TRUE, error |-> Validate(ConfigData(file)),
          config |-> NoConfig]
    ELSE [raised |-> FALSE, error |-> "",
          config |-> Config(ConfigData(file).secretEnabled,
                            ConfigData(file).depEnabled)]

----------------------------------------------------------------------------
(* SpecCli: cli.main *)

\* main(), lines 101-108: load the configuration if --config was given
CliLoadConfig ==
    /\ cliPc = "load_config"
    /\ IF cliArgs.configFile = "none"
       THEN UNCHANGED <<config, stderr>>
       ELSE IF Load(cliArgs.configFile).raised
            THEN /\ stderr' = Append(stderr, Load(cliArgs.configFile).error)
                 /\ UNCHANGED config
            ELSE /\ config' = Load(cliArgs.configFile).config
                 /\ UNCHANGED stderr
    /\ cliPc' = "init_scanner"
    /\ UNCHANGED <<mode, analyzers, ctorRaises, envVars, scanVars, resVars,
                   unitVars, cliArgs, exitCode>>

\* main(), lines 114-123: scanner = SkillScanner(mode=mode, config=config)
CliInitScanner ==
    /\ cliPc = "init_scanner"
    /\ mode' = cliArgs.mode
    /\ analyzers' = InitAnalyzers(cliArgs.mode, ctorRaises)
    /\ cliPc' = "scan"
    /\ UNCHANGED <<config, ctorRaises, envVars, scanVars, resVars, unitVars,
                   cliArgs, exitCode, stderr>>

\* main(), lines 131-139: the number of files the progress bar expects
CliTotalFiles ==
    IF ~rootExists THEN 0
    ELSE Cardinality({p \in RelPaths :
                         /\ tree[p].present
                         /\ ~ShouldIgnore(rootPath \o p)
                         /\ Suffix(Name(p)) \in SCAN_EXTENSIONS})

\* main(), lines 125-150: the progress tracker and the call of scanner.scan
CliScan ==
    /\ cliPc = "scan"
    /\ StartScan(IF cliArgs.progress /\ CliTotalFiles > 0
                 THEN "ok" ELSE "none")
    /\ cliPc' = "scanning"
    /\ UNCHANGED <<cliArgs, exitCode, stderr>>

\* Mutant of CliExit: any finding makes the exit code nonzero.
CliExit_AnyFinding ==
    /\ cliPc = "scanning"
    /\ pc = "done"
    /\ exitCode' = IF result.findings # <<>> THEN 1 ELSE 0
    /\ cliPc' = "exited"
    /\ UNCHANGED <<objVars, envVars, scanVars, resVars, unitVars, cliArgs, stderr>>

\* main(), lines 152-170: format, print and exit
CliExit ==
    /\ cliPc = "scanning"
    /\ pc = "done"
    /\ exitCode' = IF risk_summary(result.findings)["HIGH"] > 0 THEN 1 ELSE 0
    /\ cliPc' = "exited"
    /\ UNCHANGED <<objVars, envVars, scanVars, resVars, unitVars, cliArgs, stderr>>

\* The trees given to the command line.
CliTrees ==
    {t \in Trees : /\ t[<<"util.py">>] = Absent
                   /\ t[<<"logo.png">>] = Absent
                   /\ t[<<"SKILL.md">>] \in {Absent, File("benign")}}

InitCli ==
    /\ cliArgs \in [mode : AnalysisMode, progress : BOOLEAN,
                    configFile : {"none"} \cup ConfigFiles]
    /\ cliPc = "load_config"
    /\ exitCode = -1
    /\ stderr = <<>>
    /\ mode = cliArgs.mode
    /\ config = NoConfig
    /\ analyzers = <<>>
    /\ ctorRaises = {}
    /\ rootPath = <<"skills", "demo">>
    /\ rootExists \in BOOLEAN
    /\ tree \in (IF rootExists THEN CliTrees ELSE {EmptyTree})
    /\ ScanIdle
    /\ ResIdle
    /\ UnitIdle

NextCli ==
    \/ CliLoadConfig
    \/ CliInitScanner
    \/ CliScan
    \/ ReadFile
    \/ RunAnalyzer
    \/ FinishFile
    \/ Return
    \/ CliExit

SpecCli == InitCli /\ [][NextCli]_vars

----------------------------------------------------------------------------
(* C9 *)

\* C9: once the command line has exited after its scan, the exit code is 1
\* if the result holds a HIGH finding (the assessment is critical) and 0
\* otherwise.
C9_ExitCode ==
    cliPc = "exited" =>
        /\ exitCode \in {0, 1}
        /\ exitCode # 0
             <=> \E i \in 1..Len(result.findings) :
                    result.findings[i].level = "HIGH"
        /\ exitCode # 0 <=> security_assessment(result.findings) = "CRITICAL"

\* C9 witness: the command line exited with code 0 on a result that holds
\* findings, none of them HIGH.
C9_Witness ==
    /\ cliPc = "exited"
    /\ exitCode = 0
    /\ result.findings # <<>>

----------------------------------------------------------------------------
(* C10 *)

\* C10 (as claimed): when the configuration file given to the command line
\* fails to load or validate, no scan is performed.
C10_InvalidConfigIsFatal ==
    (cliArgs.configFile # "none" /\ Load(cliArgs.configFile).raised) =>
        /\ scanNo = 0
        /\ pc = "idle"
        /\ cliPc \notin {"scanning", "exited"}

----------------------------------------------------------------------------
(* SpecBuild: scanners constructed one after another in one process, each   *)
(* scanning the same file tree                                              *)

\* The sets of analyzer classes whose constructor raises.
CtorFaults ==
    {{}, {"Regex"}, {"AST"}, {"Secret"}, {"Dependency"}, {"Taint"}}

\* SkillScanner(mode=m, config=config), lines 31-33; when _init_analyzers
\* raises no scanner object exists (analyzers = <<>>).
Construct ==
    /\ cliPc = "none"
    /\ pc \in {"idle", "done"}
    /\ scanNo < MaxScans
    /\ \E m \in AnalysisMode, f \in CtorFaults :
         /\ mode' = m
         /\ ctorRaises' = f
         /\ analyzers' = IF InitRaises(m, f) THEN <<>>
                         ELSE InitAnalyzers(m, f)
    /\ prev' = Outcome
    /\ pc' = "idle"
    /\ sink' = "none"
    /\ files' = <<>>
    /\ total_files' = 0
    /\ idx' = 1
    /\ content' = "benign"
    /\ aidx' = 1
    /\ file_findings' = <<>>
    /\ all_findings' = <<>>
    /\ files_scanned' = 0
    /\ elapsed' = 0
    /\ result' = NoResult
    /\ sinkCalls' = <<>>
    /\ log' = <<>>
    /\ tainted_vars' = EmptyDict
    /\ UNCHANGED <<config, envVars, cliVars, resVars, unitVars, scanNo>>

\* scanner.scan(path) on the scanner constructed last
ScanBuilt ==
    /\ cliPc = "none"
    /\ analyzers # <<>>
    /\ StartScan("none")
    /\ UNCHANGED cliVars

\* The trees of SpecBuild.
BuildTrees ==
    {t \in [RelPaths -> {Absent} \cup {File(c) : c \in
                            {"secret", "src_only", "sink_only", "syntaxerr",
                             "mixed", "deepchain"}}] :
        /\ t[<<"main.py">>] \in
              {Absent, File("secret"), File("src_only"), File("syntaxerr"),
               File("mixed"), File("deepchain")}
        /\ t[<<"util.py">>] \in {Absent, File("sink_only")}
        /\ t[<<"SKILL.md">>] \in {Absent, File("secret")}
        /\ \A p \in RelPaths \ {<<"main.py">>, <<"util.py">>, <<"SKILL.md">>} :
              t[p] = Absent}

InitBuild ==
    /\ mode = "STANDARD"
    /\ config \in {NoConfig, Config(FALSE, TRUE)}
    /\ analyzers = <<>>
    /\ ctorRaises = {}
    /\ rootPath = <<"skills", "demo">>
    /\ rootExists = TRUE
    /\ tree \in BuildTrees
    /\ ScanIdle
    /\ CliIdle
    /\ ResIdle
    /\ UnitIdle

NextBuild ==
    \/ Construct
    \/ ScanBuilt
    \/ ReadFile
    \/ RunAnalyzer
    \/ FinishFile
    \/ Return

SpecBuild == InitBuild /\ [][NextBuild]_vars

\* a construction of a scanner was attempted
Attempted == ~(analyzers = <<>> /\ ctorRaises = {})

\* what analyzer a returns for a file on a scanner that analyzed no file
\* before
AnalyzeAlone(a, f) ==
    IF a = "Taint"
    THEN (IF TaintWalks(f, tree[f].content, mode)
          THEN Returned(TaintWalk(Nodes(tree[f].content), EmptyDict,
                                  Name(f)).issues)
          ELSE IF Suffix(Name(f)) = ".py" /\ mode # "FAST"
                  /\ AstParse(tree[f].content) # "SyntaxError"
               THEN Raised
               ELSE Returned(<<>>))
    ELSE Analyze(a, f, tree[f].content, mode, config)

\* the findings of a file analyzed alone, in activation order
RECURSIVE ExpectedAlone(_, _)
ExpectedAlone(as, f) ==
    IF as = <<>> THEN <<>>
    ELSE (IF AnalyzeAlone(Head(as), f).raised THEN <<>>
          ELSE AnalyzeAlone(Head(as), f).issues)
         \o ExpectedAlone(Tail(as), f)

\* number of findings of a severity over the files k..Len(files), each
\* analyzed alone
RECURSIVE AloneCount(_, _)
AloneCount(k, lv) ==
    IF k > Len(files) THEN 0
    ELSE (IF tree[files[k]].readable
          THEN CountLevel(ExpectedAlone(analyzers, files[k]), lv) ELSE 0)
         + AloneCount(k + 1, lv)

----------------------------------------------------------------------------
(* C11 *)

\* C11: when a FAST scanner and then a DEEP scanner, constructed under the
\* same constructor faults and the same config, have each scanned the same
\* tree, the DEEP result holds at least as many findings as the FAST result
\* and counts the same files.
C11_DeepFindsNoLess ==
    (/\ pc = "done"
     /\ prev.valid
     /\ prev.mode = "FAST"
     /\ mode = "DEEP"
     /\ prev.ctorRaises = ctorRaises) =>
        /\ Len(result.findings) >= Len(prev.result.findings)
        /\ result.files_scanned = prev.result.files_scanned

\* C11 witness: the FAST scan returned findings and the DEEP scan of the
\* same tree returned strictly more.
C11_Witness ==
    /\ pc = "done"
    /\ prev.valid
    /\ prev.mode = "FAST"
    /\ mode = "DEEP"
    /\ prev.ctorRaises = ctorRaises
    /\ Len(prev.result.findings) >= 2
    /\ Len(result.findings) > Len(prev.result.findings)

----------------------------------------------------------------------------
(* C12 *)

\* the analyzers of the mode whose constructor did not raise, in activation
\* order
Remaining ==
    SelectSeq(<<"Regex", "AST", "Secret", "Dependency", "Taint">>,
              LAMBDA a : /\ a \notin ctorRaises
                         /\ a = "AST" => mode \in {"STANDARD", "DEEP"}
                         /\ a = "Taint" => mode = "DEEP")

\* every discovered readable file got exactly the calls of the analyzers in
\* as, and the result holds what they return
ScansWith(as) ==
    /\ \A i \in 1..Len(log) :
         log[i].ev \in {"analyzed", "analyzer_raised"}
            => log[i].an \in Range(as)
    /\ pc = "done" =>
         /\ result.returned
         /\ \A k \in 1..Len(files) :
              tree[files[k]].readable =>
                /\ Len(CallsOn(files[k])) = Len(as)
                /\ \A j \in 1..Len(as) : CallsOn(files[k])[j].an = as[j]
                /\ FindingsOf(result.findings, files[k])
                     = Expected(as, files[k])

\* C12 (as claimed): whichever analyzer constructor raises, the construction
\* of the scanner does not abort: a scanner exists whose active analyzers
\* are those of the mode without the failing ones, and its scans run with
\* them.
C12_ConstructionNeverAborts ==
    Attempted =>
        /\ analyzers # <<>>
        /\ analyzers = Remaining
        /\ ScansWith(Remaining)

\* C12 (amended): a raising constructor of the Secret, Dependency or Taint
\* analyzer is swallowed (the scanner exists, its active analyzers are
\* those of the mode without the failing ones, and its scans run with
\* them); a raising constructor of the Regex analyzer, or of the AST
\* analyzer in STANDARD or DEEP mode, aborts the construction and no scanner
\* exists.
C12_SecondaryFaultSwallowed ==
    Attempted =>
        /\ ~InitRaises(mode, ctorRaises) =>
             /\ analyzers # <<>>
             /\ analyzers[1] = "Regex"
             /\ analyzers = Remaining
             /\ ScansWith(Remaining)
        /\ InitRaises(mode, ctorRaises) =>
             /\ analyzers = <<>>
             /\ pc = "idle"
             /\ log = <<>>

\* C12 witness: a DEEP scanner built while the Secret constructor raised
\* scanned a tree holding a secret and returned findings, none of them a
\* hardcoded secret.
C12_Witness ==
    /\ pc = "done"
    /\ mode = "DEEP"
    /\ ctorRaises = {"Secret"}
    /\ analyzers = <<"Regex", "AST", "Dependency", "Taint">>
    /\ tree[<<"main.py">>] = File("syntaxerr")
    /\ result.findings # <<>>
    /\ \A i \in 1..Len(result.findings) :
          result.findings[i].category # "hardcoded_secret"

----------------------------------------------------------------------------
(* C13 *)

\* C13: what an analyzer contributes for a file is what it returns for that
\* file on a scanner that analyzed nothing before, whatever files came
\* first: the findings of every merged file are those of the file analyzed
\* alone, the risk_summary of the result is the sum over the files analyzed
\* alone, the taint analyzer's tainted variables after a file are those of
\* a walk of that file started from the empty map, and a second scan by the
\* same scanner returns the same findings.
C13_AnalyzersStateless ==
    /\ \A k \in 1..Len(files) :
         (tree[files[k]].readable /\ Merged(files[k])) =>
            FindingsOf(all_findings, files[k])
                = ExpectedAlone(analyzers, files[k])
    /\ (pc = "analyze" /\ aidx > 1 /\ analyzers[aidx - 1] = "Taint"
           /\ TaintWalks(files[idx], content, mode)) =>
         tainted_vars = TaintWalk(Nodes(content), EmptyDict,
                                  Name(files[idx])).vars
    /\ (pc = "analyze" /\ aidx > 1) =>
         LET r == AnalyzeAlone(analyzers[aidx - 1], files[idx])
         IN  /\ r.raised <=> log[Len(log)].ev = "analyzer_raised"
             /\ ~r.raised =>
                  SubSeq(file_findings,
                         Len(file_findings) - Len(r.issues) + 1,
                         Len(file_findings)) = r.issues
    /\ pc = "done" =>
         \A lv \in Severity :
            risk_summary(result.findings)[lv] = AloneCount(1, lv)
    /\ (pc = "done" /\ prev.valid /\ prev.mode = mode
           /\ prev.analyzers = analyzers) =>
         result.findings = prev.result.findings

\* C13 witness: a DEEP scan analyzed a file that assigns user input to cmd
\* and then a file that passes cmd to os.system, and returned no taint
\* finding for the second file.
C13_Witness ==
    /\ pc = "done"
    /\ mode = "DEEP"
    /\ "Taint" \in Range(analyzers)
    /\ tree[<<"main.py">>] = File("src_only")
    /\ tree[<<"util.py">>] = File("sink_only")
    /\ \E i, j \in 1..Len(log) :
          /\ i < j
          /\ log[i] = Event("analyzed", <<"main.py">>, "Taint")
          /\ log[j] = Event("analyzed", <<"util.py">>, "Taint")
    /\ \E i \in 1..Len(result.findings) :
          result.findings[i].file = "util.py"
    /\ \A i \in 1..Len(result.findings) : result.findings[i].src # "Taint"

----------------------------------------------------------------------------
(* C14 *)

\* the content of the file is Python text with a syntax error
HasSyntaxError(f) ==
    Suffix(Name(f)) = ".py" /\ AstParse(tree[f].content) = "SyntaxError"

\* C14: on a Python file with a syntax error no analyzer call raises, the
\* AST analyzer contributes no finding, every active analyzer is called,
\* the findings of the Regex and Secret analyzers are kept, and the file is
\* counted in files_scanned.
C14_SyntaxErrorTolerated ==
    \A k \in 1..Len(files) :
      LET f == files[k] IN
      (tree[f].readable /\ HasSyntaxError(f)) =>
        /\ ASTAnalyze(f, tree[f].content) = Returned(<<>>)
        /\ \A i \in 1..Len(log) :
             log[i].file = f => log[i].ev # "analyzer_raised"
        /\ \A i \in 1..Len(all_findings) :
             all_findings[i].file = Name(f) => all_findings[i].src # "AST"
        /\ Merged(f) =>
             /\ Len(CallsOn(f)) = Len(analyzers)
             /\ \A j \in 1..Len(analyzers) : CallsOn(f)[j].an = analyzers[j]
             /\ FindingsOf(all_findings, f)
                  = RegexAnalyze(f, tree[f].content, mode).issues
                    \o (IF "Secret" \in Range(analyzers)
                        THEN SecretAnalyze(f, tree[f].content, config).issues
                        ELSE <<>>)
             /\ files_scanned >= 1
        /\ pc = "done" =>
             result.files_scanned
                 = Cardinality({j \in 1..Len(files) : tree[files[j]].readable})

\* C14 witness: a STANDARD scan returned after the AST analyzer was called
\* on a file with a syntax error; the file is counted and a Regex finding
\* and a Secret finding are kept for it.
C14_Witness ==
    /\ pc = "done"
    /\ mode = "STANDARD"
    /\ tree[<<"main.py">>] = File("syntaxerr")
    /\ \E i \in 1..Len(log) : log[i] = Event("analyzed", <<"main.py">>, "AST")
    /\ result.files_scanned >= 1
    /\ \E i \in 1..Len(result.findings) :
          result.findings[i] = SecurityIssue("HIGH", "command_injection",
                                             "main.py", "Regex")
    /\ \E i \in 1..Len(result.findings) :
          result.findings[i] = SecurityIssue("HIGH", "hardcoded_secret",
                                             "main.py", "Secret")

----------------------------------------------------------------------------
(* SpecRegex: RegexAnalyzer(mode, config).analyze(file_path, content)      *)

\* re.finditer(pattern, content) finds a match of a custom pattern
CustomMatches(regex, c) == regex = "TEST_SECRET_[A-Za-z0-9]+" /\ c = "custom"

\* The configs given to the analyzer: none, or one custom pattern.
RegexConfigs ==
    {NoConfig}
    \cup {[Config(TRUE, TRUE) EXCEPT
             !.customPatterns =
                 <<CustomPattern("test_pattern", "TEST_SECRET_[A-Za-z0-9]+",
                                 sv)>>] : sv \in Severity}

RegexContents ==
    {"benign", "eval", "vulndep", "taint", "sink_only", "mixed", "custom"}

\* No scan is running; an analyzer method is about to be called on file f
\* with content c.
AnalyzerIdle(f, c) ==
    /\ pc = "idle"
    /\ sink = "none"
    /\ files = <<f>>
    /\ total_files = 0
    /\ idx = 1
    /\ content = c
    /\ aidx = 1
    /\ file_findings = <<>>
    /\ all_findings = <<>>
    /\ files_scanned = 0
    /\ elapsed = 0
    /\ result = NoResult
    /\ sinkCalls = <<>>
    /\ log = <<>>
    /\ scanNo = 0
    /\ prev = NoPrev
    /\ tainted_vars = EmptyDict

\* issues = analyzer.analyze(file_path, content) on the Regex analyzer
RegexCall ==
    /\ pc = "idle"
    /\ analyzers = <<"Regex">>
    /\ file_findings' = RegexAnalyze(files[1], content, mode).issues
    /\ pc' = "analyzed"
    /\ UNCHANGED <<objVars, envVars, cliVars, resVars, unitVars, sink, files,
                   total_files, idx, content, aidx, all_findings,
                   files_scanned, elapsed, result, sinkCalls, log, scanNo,
                   prev, tainted_vars>>

InitRegex ==
    /\ mode \in AnalysisMode
    /\ config \in RegexConfigs
    /\ analyzers = <<"Regex">>
    /\ ctorRaises = {}
    /\ rootPath = <<"skills", "demo">>
    /\ rootExists = FALSE
    /\ tree = EmptyTree
    /\ \E f \in {<<"main.py">>, <<"SKILL.md">>}, c \in RegexContents :
          AnalyzerIdle(f, c)
    /\ CliIdle
    /\ ResIdle
    /\ UnitIdle

NextRegex == RegexCall

SpecRegex == InitRegex /\ [][NextRegex]_vars

----------------------------------------------------------------------------
(* C15 *)

\* C15: the findings of a Regex analyzer call are all HIGH in FAST mode and
\* hold no LOW finding in STANDARD mode; the MEDIUM table and the suspicious
\* URLs contribute only in STANDARD and DEEP mode, the LOW table only in
\* DEEP mode.
C15_TiersByMode ==
    pc = "analyzed" =>
        LET path == files[1]
            high == CheckPatterns(content, "HIGH", path)
            medium == CheckPatterns(content, "MEDIUM", path)
            low == CheckPatterns(content, "LOW", path)
            urls == SuspiciousUrls(content, path)
        IN  /\ mode = "FAST" =>
                 /\ \A i \in 1..Len(file_findings) :
                       file_findings[i].level = "HIGH"
                 /\ file_findings = high
            /\ mode = "STANDARD" =>
                 /\ \A i \in 1..Len(file_findings) :
                       file_findings[i].level # "LOW"
                 /\ file_findings = high \o medium \o urls
            /\ mode = "DEEP" =>
                 file_findings = high \o medium \o low \o urls

\* C15 witness: a FAST call on a text with HIGH, MEDIUM and LOW table
\* matches and a suspicious URL returned the HIGH finding only.
C15_Witness ==
    /\ pc = "analyzed"
    /\ mode = "FAST"
    /\ content = "mixed"
    /\ files[1] = <<"main.py">>
    /\ TableMatches(content, "MEDIUM") # <<>>
    /\ TableMatches(content, "LOW") # <<>>
    /\ SuspiciousMatches(content) # <<>>
    /\ file_findings = <<SecurityIssue("HIGH", "command_injection", "main.py",
                                       "Regex")>>

----------------------------------------------------------------------------
(* C19 *)

\* C19 (as claimed): when the config holds a custom pattern whose tier is
\* scanned in the mode and the content of a file that is no documentation
\* file matches its regex, the call returns a finding of the configured
\* severity in the category of the pattern.
C19_CustomPatternApplied ==
    pc = "analyzed" =>
        \A k \in 1..Len(config.customPatterns) :
          LET cp == config.customPatterns[k] IN
          (/\ CustomMatches(cp.pattern, content)
           /\ ~IsWhitelistedPattern(files[1])
           /\ \/ cp.severity = "HIGH"
              \/ (cp.severity = "MEDIUM" /\ mode \in {"STANDARD", "DEEP"})
              \/ (cp.severity = "LOW" /\ mode = "DEEP")) =>
             \E i \in 1..Len(file_findings) :
                /\ file_findings[i].level = cp.severity
                /\ file_findings[i].category = cp.name

----------------------------------------------------------------------------
(* SpecSecret: SecretAnalyzer(mode, config)._analyze_line(line, 1, path)   *)

MaxMatches == 2        \* SECRET_PATTERNS matches in one line
MaxCandidates == 2     \* quoted candidate strings in one line

\* sequences over S of length at most n
SeqsUpTo(S, n) == UNION {[1..k -> S] : k \in 0..n}

\* The candidate strings: 29 or 64 characters, entropy 0.00, 4.58 or 6.00;
\* a string of n characters has an entropy of at most log2(n), so only the
\* string of 64 characters reaches 6.00.
Candidates ==
    {c \in [length : {29, 64}, entropy : {0, 458, 600}] :
        c.entropy = 600 => c.length = 64}

\* The matches of a line; a match text can hold a false-positive marker
\* only if the line does.
MatchesOf(fp) ==
    {SecretMatch("Generic API Key", "MEDIUM", b) :
        b \in (IF fp THEN BOOLEAN ELSE {FALSE})}
    \cup {SecretMatch("Hardcoded Password", "HIGH", b) :
        b \in (IF fp THEN BOOLEAN ELSE {FALSE})}

\* The lines given to the analyzer; the extracted value is a part of the
\* line, so it holds a false-positive marker only if the line does.
SecretLines ==
    UNION {
      [blank : BOOLEAN, falsePositive : {fp},
       matches : SeqsUpTo(MatchesOf(fp), MaxMatches),
       keyAssign : BOOLEAN, valueLen : {14, 32},
       valueFalsePositive : (IF fp THEN BOOLEAN ELSE {FALSE}),
       candidates : SeqsUpTo(Candidates, MaxCandidates),
       likelyAssign : BOOLEAN] : fp \in BOOLEAN}

\* config.secret_detection: the defaults, min_entropy 0, min_length 30
SecretConfigs ==
    {NoConfig,
     [Config(TRUE, TRUE) EXCEPT !.minEntropy = 0],
     [Config(TRUE, TRUE) EXCEPT !.minLength = 30]}

\* issues = analyzer._analyze_line(line, 1, file_path)
AnalyzeLineCall ==
    /\ pc = "idle"
    /\ analyzers = <<"Secret">>
    /\ file_findings' = AnalyzeLine(line, 1, config)
    /\ pc' = "analyzed"
    /\ UNCHANGED <<objVars, envVars, cliVars, resVars, unitVars, sink, files,
                   total_files, idx, content, aidx, all_findings,
                   files_scanned, elapsed, result, sinkCalls, log, scanNo,
                   prev, tainted_vars>>

InitSecret ==
    /\ mode = "STANDARD"
    /\ config \in SecretConfigs
    /\ analyzers = <<"Secret">>
    /\ ctorRaises = {}
    /\ rootPath = <<"skills", "demo">>
    /\ rootExists = FALSE
    /\ tree = EmptyTree
    /\ AnalyzerIdle(<<"main.py">>, "benign")
    /\ CliIdle
    /\ ResIdle
    /\ node = NoNode
    /\ line \in SecretLines
    /\ walkPos = 0

NextSecret == AnalyzeLineCall

SpecSecret == InitSecret /\ [][NextSecret]_vars

\* the findings of a pass in the findings of the analyzed line
OfPass(ps) == SelectSeq(file_findings, LAMBDA x : x.pass = ps)

----------------------------------------------------------------------------
(* C16 *)

\* C16 (as claimed): the findings of a line hold at most one entropy
\* finding, and none when they hold a pattern finding.
C16_OneFindingKindPerLine ==
    pc = "analyzed" =>
        /\ Len(OfPass("entropy")) <= 1
        /\ OfPass("pattern") # <<>> => OfPass("entropy") = <<>>

----------------------------------------------------------------------------
(* C17 *)

\* C17: every pattern finding has a confidence in [0.1, 1.0], namely 0.7
\* plus 0.15 for a key assignment plus 0.1 for a value of 32 characters or
\* more minus 0.3 for a false-positive value, clamped; every entropy
\* finding has a confidence in [0, 0.95], namely entropy / 8 capped at 0.95
\* (confidences in units of 1/20000).
C17_ConfidenceRanges ==
    pc = "analyzed" =>
        \A i \in 1..Len(file_findings) :
          LET x == file_findings[i] IN
          /\ x.pass = "pattern" =>
               /\ 2000 <= x.confidence /\ x.confidence <= 20000
               /\ x.confidence
                    = Min(20000,
                          Max(2000,
                              14000
                              + (IF line.keyAssign THEN 3000 ELSE 0)
                              + (IF line.valueLen >= 32 THEN 2000 ELSE 0)
                              - (IF line.valueFalsePositive THEN 6000 ELSE 0)))
          /\ x.pass = "entropy" =>
               /\ 0 <= x.confidence /\ x.confidence <= 19000
               /\ \E k \in 1..Len(line.candidates) :
                     x.confidence = Min(19000, line.candidates[k].entropy * 25)

\* C17 witness: a line yielded a pattern finding of confidence 0.95 (key
\* assignment, long value) and an entropy finding of confidence 0.
C17_Witness ==
    /\ pc = "analyzed"
    /\ \E i, j \in 1..Len(file_findings) :
          /\ file_findings[i].pass = "pattern"
          /\ file_findings[i].confidence = 19000
          /\ file_findings[j].pass = "entropy"
          /\ file_findings[j].confidence = 0

----------------------------------------------------------------------------
(* SpecAst: PythonASTVisitor.visit_Call(node) on a single call             *)

MaxArgs == 2           \* positional arguments of the call
MaxKeywords == 1       \* keyword arguments of the call

\* The calls visited: a dynamic-execution primitive or print, its
\* positional arguments literals or names, its keyword arguments likewise.
CallNodes ==
    {Call(Func("", fn, fn), args, kws) :
        fn \in {"eval", "exec", "compile", "__import__", "print"},
        args \in SeqsUpTo({AstConstant("text"), AstName("x")}, MaxArgs),
        kws \in SeqsUpTo({Keyword("source", AstConstant("text")),
                          Keyword("source", AstName("x"))}, MaxKeywords)}

\* visitor.visit_Call(node); visitor.issues
VisitCallStep ==
    /\ pc = "idle"
    /\ analyzers = <<"AST">>
    /\ file_findings' = VisitCall(node, Name(files[1]))
    /\ pc' = "analyzed"
    /\ UNCHANGED <<objVars, envVars, cliVars, resVars, unitVars, sink, files,
                   total_files, idx, content, aidx, all_findings,
                   files_scanned, elapsed, result, sinkCalls, log, scanNo,
                   prev, tainted_vars>>

InitAst ==
    /\ mode \in {"STANDARD", "DEEP"}
    /\ config = NoConfig
    /\ analyzers = <<"AST">>
    /\ ctorRaises = {}
    /\ rootPath = <<"skills", "demo">>
    /\ rootExists = FALSE
    /\ tree = EmptyTree
    /\ AnalyzerIdle(<<"main.py">>, "benign")
    /\ CliIdle
    /\ ResIdle
    /\ node \in CallNodes
    /\ line = PlainLine
    /\ walkPos = 0

NextAst == VisitCallStep

SpecAst == InitAst /\ [][NextAst]_vars

----------------------------------------------------------------------------
(* C18 *)

\* C18 (as claimed): for a call of eval, exec, compile or __import__ the
\* visit yields exactly one HIGH finding if some argument of the call,
\* positional or keyword, is not a literal constant, and no HIGH finding if
\* all its arguments are literal constants.
C18_FlagsAnyNonLiteralArgument ==
    (pc = "analyzed"
       /\ node.func.name \in {"eval", "exec", "compile", "__import__"}) =>
        LET dynamic ==
               \/ \E i \in 1..Len(node.args) : node.args[i].type # "Constant"
               \/ \E i \in 1..Len(node.keywords) :
                     node.keywords[i].value.type # "Constant"
        IN  CountLevel(file_findings, "HIGH") = (IF dynamic THEN 1 ELSE 0)

----------------------------------------------------------------------------
(* SpecDiscover: SkillScanner._get_files_to_scan(skill_path)               *)

\* The trees of SpecDiscover: every file present or not.
DiscoverTrees == [RelPaths -> {Absent, File("benign")}]

\* files = scanner._get_files_to_scan(Path(skill_path))
GetFiles ==
    /\ pc = "idle"
    /\ cliPc = "none"
    /\ files' = GetFilesToScan(rootPath, tree)
    /\ total_files' = Len(GetFilesToScan(rootPath, tree))
    /\ pc' = "listed"
    /\ UNCHANGED <<objVars, envVars, cliVars, resVars, unitVars, sink, idx,
                   content, aidx, file_findings, all_findings, files_scanned,
                   elapsed, result, sinkCalls, log, scanNo, prev,
                   tainted_vars>>

InitDiscover ==
    /\ mode \in AnalysisMode
    /\ config = NoConfig
    /\ ctorRaises = {}
    /\ analyzers = InitAnalyzers(mode, ctorRaises)
    /\ rootPath \in RootPaths
    /\ rootExists = TRUE
    /\ tree \in DiscoverTrees
    /\ ScanIdle
    /\ CliIdle
    /\ ResIdle
    /\ UnitIdle

NextDiscover == GetFiles

SpecDiscover == InitDiscover /\ [][NextDiscover]_vars

----------------------------------------------------------------------------
(* C20 *)

\* the file lies in an ignored directory below the root
InIgnoredDir(p) == \E i \in 1..Len(p) - 1 : PatternsFoundIn(p[i]) # {}

\* C20 (as claimed): a present file with an allowlisted extension is left
\* out of the list only if it lies in an ignored directory below the root.
C20_ExcludedOnlyInIgnoredDir ==
    pc = "listed" =>
        \A p \in RelPaths :
          (tree[p].present /\ Suffix(Name(p)) \in SCAN_EXTENSIONS
             /\ p \notin Range(files)) => InIgnoredDir(p)

----------------------------------------------------------------------------
(* C21 *)

\* position in the file list of the file a finding names
FilePos(x) == CHOOSE k \in 1..Len(files) : Name(files[k]) = x.file

\* position of an analyzer in the activation order of _init_analyzers
ActivationRank(a) ==
    CASE a = "Regex"      -> 1
      [] a = "AST"        -> 2
      [] a = "Secret"     -> 3
      [] a = "Dependency" -> 4
      [] a = "Taint"      -> 5

----------------------------------------------------------------------------
(* C28 *)

\* the files read and fully analyzed so far in this scan
FullyAnalyzed == Count(log, "read") - (IF pc = "analyze" THEN 1 ELSE 0)

\* every step leaves the counter alone, or adds one to it at the end of the
\* analysis of a file that was read, or is the start of a new scan
CounterSteps ==
    [][\/ files_scanned' = files_scanned
       \/ /\ files_scanned' = files_scanned + 1
          /\ pc = "analyze"
          /\ aidx > Len(analyzers)
          /\ FullyAnalyzed' = FullyAnalyzed + 1
       \/ /\ files_scanned' = 0
          /\ pc \in {"idle", "done", "raised"}]_vars

\* C28 (as claimed): at every point of a scan files_scanned is the number
\* of files read and fully analyzed so far and the number of progress-sink
\* calls made so far, and the result returned has
\* 0 <= files_scanned <= number of discovered files.
C28_CounterIsSinkCalls ==
    /\ files_scanned = FullyAnalyzed
    /\ files_scanned = Len(sinkCalls)
    /\ pc = "done" =>
          /\ result.files_scanned = files_scanned
          /\ 0 <= result.files_scanned
          /\ result.files_scanned <= Len(files)

\* C28 (amended): at every point of a scan files_scanned is the number of
\* files read and fully analyzed so far, it grows by exactly one per such
\* file and never otherwise, and when a progress sink was given it is the
\* number of progress-sink calls made so far; the result returned has
\* 0 <= files_scanned <= number of discovered files.
C28_CounterIsAnalyzedFiles ==
    /\ [](/\ files_scanned = FullyAnalyzed
          /\ sink # "none" => files_scanned = Len(sinkCalls)
          /\ sink = "none" => sinkCalls = <<>>
          /\ pc = "done" =>
                /\ result.files_scanned = files_scanned
                /\ 0 <= result.files_scanned
                /\ result.files_scanned <= Len(files))
    /\ CounterSteps

\* C28 witness: a scan with a sink returned after one of its two files
\* could not be read; one file was counted and reported.
C28_Witness ==
    /\ pc = "done"
    /\ sink = "ok"
    /\ Len(files) = 2
    /\ Count(log, "read_failed") = 1
    /\ result.files_scanned = 1
    /\ Len(sinkCalls) = 1

----------------------------------------------------------------------------
(* SpecTaint: TaintAnalyzer(mode).analyze(file_path, content), a node of   *)
(* ast.walk at a time                                                      *)

MaxStmts == 2          \* simple statements in the file
MaxDepth == 2          \* compound statements (def, if) around a statement

\* ast.Module
Module(body) == [type |-> "Module", body |-> body]

\* A simple statement of the file: target = expr (an ast.Assign), or, with
\* target "", the call expr alone (an ast.Expr); depth is the number of
\* compound statements around it, scope the function whose body holds it.
Stmt(target, expr, depth, scope) ==
    [target |-> target, expr |-> expr, depth |-> depth, scope |-> scope]

\* v = input(), v = "ls" and os.system(v), at module level or in the
\* function f, under up to MaxDepth compound statements
TaintStmts ==
    {Stmt(st[1], st[2], d, sc) :
        st \in {<<"v", CallInput>>, <<"v", AstConstant("ls")>>,
                <<"", CallOsSystem("v")>>},
        d \in 0..MaxDepth,
        sc \in {"module", "f"}}

\* The files analyzed: the simple statements in source order; a statement
\* of f has the def around it, and the body of f is one stretch of the file.
TaintPrograms ==
    {Module(b) : b \in
        {b \in SeqsUpTo(TaintStmts, MaxStmts) :
            /\ \A i \in 1..Len(b) : b[i].scope = "f" => b[i].depth >= 1
            /\ \A i, j, k \in 1..Len(b) :
                  (i < j /\ j < k /\ b[i].scope = "f" /\ b[k].scope = "f")
                      => b[j].scope = "f"}}

\* The Assign and Call nodes of statement i that ast.walk meets at level lv
\* of the tree (the Module is level 0): the statement itself at level
\* depth + 1, the call that is its value at level depth + 2.
NodesAt(st, i, lv) ==
    (IF st.target # "" /\ lv = st.depth + 1
     THEN <<Assign(st.target, st.expr, i)>> ELSE <<>>)
    \o (IF st.expr.type = "Call" /\ lv = st.depth + 2
        THEN <<[type |-> "Call", func |-> st.expr.func, args |-> st.expr.args,
                keywords |-> st.expr.keywords, lineno |-> i]>>
        ELSE <<>>)

\* ast.walk(tree): breadth first, one level of the tree after the other,
\* each level in source order
Walk(body) ==
    Flatten([lv \in 1..MaxDepth + 2 |->
                Flatten([i \in 1..Len(body) |-> NodesAt(body[i], i, lv)])])

\* What the loop did with a node: ev is "assign", "call" or "reported".
Visited(ev, lineno) == [ev |-> ev, lineno |-> lineno]

\* analyze, lines 69-84: the early returns, then tainted_vars = {}
TaintStart ==
    /\ pc = "idle"
    /\ analyzers = <<"Taint">>
    /\ node.type = "Module"
    /\ IF Suffix(Name(files[1])) # ".py" \/ mode = "FAST"
       THEN /\ pc' = "analyzed"
            /\ UNCHANGED <<tainted_vars, walkPos>>
       ELSE /\ pc' = "walk"
            /\ tainted_vars' = NewTaintedVars
            /\ walkPos' = 1
    /\ UNCHANGED <<objVars, envVars, cliVars, resVars, node, line, sink,
                   files, total_files, idx, content, aidx, file_findings,
                   all_findings, files_scanned, elapsed, result, sinkCalls,
                   log, scanNo, prev>>

\* analyze, lines 87-95: the next node of ast.walk
TaintStep ==
    /\ pc = "walk"
    /\ walkPos <= Len(Walk(node.body))
    /\ LET n == Walk(node.body)[walkPos]
           found == IF n.type = "Call"
                    THEN CheckSink(n, tainted_vars, Name(files[1]))
                    ELSE <<>>
       IN  /\ tainted_vars' = IF n.type = "Assign"
                              THEN TrackAssignment(n, tainted_vars)
                              ELSE tainted_vars
           /\ file_findings' = file_findings \o found
           /\ log' = Append(log,
                            Visited(IF n.type = "Assign" THEN "assign"
                                    ELSE IF found # <<>> THEN "reported"
                                    ELSE "call", n.lineno))
    /\ walkPos' = walkPos + 1
    /\ UNCHANGED <<objVars, envVars, cliVars, resVars, node, line, pc, sink,
                   files, total_files, idx, content, aidx, all_findings,
                   files_scanned, elapsed, result, sinkCalls, scanNo, prev>>

\* analyze, line 97: return issues
TaintReturn ==
    /\ pc = "walk"
    /\ walkPos > Len(Walk(node.body))
    /\ pc' = "analyzed"
    /\ UNCHANGED <<objVars, envVars, cliVars, resVars, unitVars, sink, files,
                   total_files, idx, content, aidx, file_findings,
                   all_findings, files_scanned, elapsed, result, sinkCalls,
                   log, scanNo, prev, tainted_vars>>

InitTaint ==
    /\ mode \in {"FAST", "DEEP"}
    /\ config = NoConfig
    /\ analyzers = <<"Taint">>
    /\ ctorRaises = {}
    /\ rootPath = <<"skills", "demo">>
    /\ rootExists = FALSE
    /\ tree = EmptyTree
    /\ AnalyzerIdle(<<"main.py">>, "benign")
    /\ CliIdle
    /\ ResIdle
    /\ node \in TaintPrograms
    /\ line = PlainLine
    /\ walkPos = 0

NextTaint ==
    \/ TaintStart
    \/ TaintStep
    \/ TaintReturn

SpecTaint == InitTaint /\ [][NextTaint]_vars

\* statement i of the file assigns a taint source to v
Taints(i) ==
    node.body[i].target = "v" /\ IsTaintSource(node.body[i].expr)

\* statement i of the file is a sink call on the plain name v
SinkOnV(i) ==
    /\ node.body[i].target = ""
    /\ node.body[i].expr.func.dotted \in TAINT_SINKS
    /\ node.body[i].expr.args = <<AstName("v")>>

\* the call of statement i was reported
Reported(i) == \E k \in 1..Len(log) : log[k] = Visited("reported", i)

----------------------------------------------------------------------------
(* C22 *)

\* C22 (as claimed): when the analysis of a file is over, a sink call on v
\* that textually precedes every tainting assignment of v is not reported,
\* and a sink call on v that textually follows a tainting assignment of v
\* is reported.
C22_SourceOrder ==
    (pc = "analyzed" /\ mode # "FAST") =>
        \A i \in 1..Len(node.body) :
           SinkOnV(i) =>
             /\ (\A j \in 1..Len(node.body) : Taints(j) => i < j)
                    => ~Reported(i)
             /\ (\E j \in 1..Len(node.body) : Taints(j) /\ j < i)
                    => Reported(i)

----------------------------------------------------------------------------
(* C23 *)

\* C23 (as claimed): when the analysis of a file is over, a sink call on v
\* is reported only if v is assigned from a taint source in the function
\* (or at the module level) that holds the call.
C23_SameFunction ==
    (pc = "analyzed" /\ mode # "FAST") =>
        \A i \in 1..Len(node.body) :
           (SinkOnV(i) /\ Reported(i)) =>
              \E j \in 1..Len(node.body) :
                 Taints(j) /\ node.body[j].scope = node.body[i].scope

----------------------------------------------------------------------------
(* C29 *)

\* C29: during the walk of a file the set of tainted names only grows: a
\* step on an assignment from a taint source maps the target to the line
\* of the assignment and leaves the other names as they are, every other
\* step leaves the map unchanged; so a name tainted once is tainted when
\* the analysis is over.
C29_TaintedOnlyGrows ==
    [][pc = "walk" =>
         LET n == Walk(node.body)[walkPos] IN
         /\ DOMAIN tainted_vars \subseteq DOMAIN tainted_vars'
         /\ \A x \in DOMAIN tainted_vars :
               tainted_vars'[x] # tainted_vars[x] =>
                  /\ walkPos <= Len(Walk(node.body))
                  /\ n.type = "Assign" /\ n.target = x
                  /\ IsTaintSource(n.value)
                  /\ tainted_vars'[x] = n.lineno
         /\ (walkPos <= Len(Walk(node.body)) /\ n.type = "Assign"
               /\ ~IsTaintSource(n.value)) => tainted_vars' = tainted_vars
         /\ (walkPos <= Len(Walk(node.body)) /\ n.type = "Assign"
               /\ IsTaintSource(n.value)) =>
               /\ n.target \in DOMAIN tainted_vars'
               /\ tainted_vars'[n.target] = n.lineno]_vars

\* C29 witness: v was assigned from a taint source, then from a literal,
\* both at module level; after the literal v is still tainted, and the map
\* holds the line of the first assignment.
C29_Witness ==
    /\ pc = "analyzed"
    /\ Len(node.body) = 2
    /\ \A i \in 1..2 : node.body[i].depth = 0
    /\ Taints(1)
    /\ node.body[2].target = "v" /\ ~IsTaintSource(node.body[2].expr)
    /\ log = <<Visited("assign", 1), Visited("assign", 2),
               Visited("call", 1)>>
    /\ tainted_vars = [x \in {"v"} |-> 1]

----------------------------------------------------------------------------
(* SpecSink: TaintAnalyzer._check_sink(node, tainted_vars, file_path,      *)
(* content) on a single call                                               *)

\* The calls checked: a sink or print; its positional arguments are the
\* names v and w, a literal or input(), its keyword arguments the name v or
\* a literal.
SinkCalls ==
    {Call(fn, args, kws) :
        fn \in {Func("os", "system", "os.system"),
                Func("", "eval", "eval"),
                Func("subprocess", "run", "subprocess.run"),
                Func("", "__import__", "__import__"),
                Func("", "print", "print")},
        args \in SeqsUpTo({AstName("v"), AstName("w"), AstConstant("ls"),
                           CallInput}, MaxArgs),
        kws \in SeqsUpTo({Keyword("args", AstName("v")),
                          Keyword("args", AstConstant("ls"))}, MaxKeywords)}

\* The maps the walk can have built when it reaches the call.
TaintedMaps == UNION {[S -> {1}] : S \in SUBSET {"v", "w"}}

\* sink_issues = self._check_sink(node, tainted_vars, file_path, content)
CheckSinkCall ==
    /\ pc = "idle"
    /\ analyzers = <<"Taint">>
    /\ node.type = "Call"
    /\ file_findings' = CheckSink(node, tainted_vars, Name(files[1]))
    /\ pc' = "analyzed"
    /\ UNCHANGED <<objVars, envVars, cliVars, resVars, unitVars, sink, files,
                   total_files, idx, content, aidx, all_findings,
                   files_scanned, elapsed, result, sinkCalls, log, scanNo,
                   prev, tainted_vars>>

InitSink ==
    /\ mode = "DEEP"
    /\ config = NoConfig
    /\ analyzers = <<"Taint">>
    /\ ctorRaises = {}
    /\ rootPath = <<"skills", "demo">>
    /\ rootExists = FALSE
    /\ tree = EmptyTree
    /\ pc = "idle"
    /\ sink = "none"
    /\ files = <<<<"main.py">>>>
    /\ total_files = 0
    /\ idx = 1
    /\ content = "benign"
    /\ aidx = 1
    /\ file_findings = <<>>
    /\ all_findings = <<>>
    /\ files_scanned = 0
    /\ elapsed = 0
    /\ result = NoResult
    /\ sinkCalls = <<>>
    /\ log = <<>>
    /\ scanNo = 0
    /\ prev = NoPrev
    /\ tainted_vars \in TaintedMaps
    /\ CliIdle
    /\ ResIdle
    /\ node \in SinkCalls
    /\ line = PlainLine
    /\ walkPos = 0

NextSink == CheckSinkCall

SpecSink == InitSink /\ [][NextSink]_vars

\* the expression is a tracked name of the map or a direct taint source
TaintedArg(e) ==
    \/ (e.type = "Name" /\ e.id \in DOMAIN tainted_vars)
    \/ e = CallInput
    \/ e = AstName("input")

----------------------------------------------------------------------------
(* C24 *)

\* C24: the check of a call yields at most one finding; for a sink it
\* yields exactly one, HIGH, of category tainted_<sink category> and of
\* confidence 0.85, when
\* some positional argument is tainted, however many are, and none when
\* no positional argument is tainted, whatever the keyword arguments; for
\* a call that is no sink it yields none.
C24_OneFindingPerSinkCall ==
    pc = "analyzed" =>
        LET isSink == node.func.dotted
                        \in {"eval", "exec", "os.system", "os.popen",
                             "subprocess.call", "subprocess.run",
                             "subprocess.Popen", "compile", "__import__"}
            positional == \E i \in 1..Len(node.args) : TaintedArg(node.args[i])
            category ==
                CASE node.func.dotted \in {"eval", "exec", "compile"}
                         -> "tainted_code_execution"
                  [] node.func.dotted = "__import__"
                         -> "tainted_dynamic_import"
                  [] OTHER -> "tainted_command_execution"
        IN  /\ Len(file_findings) <= 1
            /\ (isSink /\ positional) <=> Len(file_findings) = 1
            /\ file_findings # <<>> =>
                  /\ file_findings[1].level = "HIGH"
                  /\ file_findings[1].category = category
                  /\ file_findings[1].confidence = 17000

\* C24 witness: a sink call with two tainted positional arguments and a
\* tainted keyword argument yielded one finding.
C24_Witness ==
    /\ pc = "analyzed"
    /\ node.func.dotted = "subprocess.run"
    /\ Len(node.args) = 2
    /\ \A i \in 1..2 : TaintedArg(node.args[i])
    /\ \E i \in 1..Len(node.keywords) : TaintedArg(node.keywords[i].value)
    /\ Len(file_findings) = 1
    /\ file_findings[1].category = "tainted_command_execution"

----------------------------------------------------------------------------
(* SpecMatch: the body of the loop of RegexAnalyzer._check_patterns on one  *)
(* match                                                                   *)

MaxQuotes == 2         \* quote characters of a kind before the match

\* The texts around the match.
MatchContexts ==
    [singleQuotes : 0..MaxQuotes, doubleQuotes : 0..MaxQuotes,
     patternDefinition : BOOLEAN, exampleCode : BOOLEAN,
     whitelistPattern : BOOLEAN, documentationReference : BOOLEAN,
     tier : {"HIGH", "MEDIUM", "LOW"}]

\* the category of the pattern that matched: one of each table
TierCategory(tier) ==
    CASE tier = "HIGH"   -> "command_injection"
      [] tier = "MEDIUM" -> "network_request"
      [] tier = "LOW"    -> "shell_command"

\* lines 148-178 for the match: the filters, then issues.append
CheckMatchStep ==
    /\ pc = "idle"
    /\ analyzers = <<"Regex">>
    /\ "singleQuotes" \in DOMAIN line
    /\ file_findings' = CheckMatch(line, line.tier, TierCategory(line.tier),
                                   files[1])
    /\ pc' = "analyzed"
    /\ UNCHANGED <<objVars, envVars, cliVars, resVars, unitVars, sink, files,
                   total_files, idx, content, aidx, all_findings,
                   files_scanned, elapsed, result, sinkCalls, log, scanNo,
                   prev, tainted_vars>>

InitMatch ==
    /\ mode = "DEEP"
    /\ config = NoConfig
    /\ analyzers = <<"Regex">>
    /\ ctorRaises = {}
    /\ rootPath = <<"skills", "demo">>
    /\ rootExists = FALSE
    /\ tree = EmptyTree
    /\ \E f \in {<<"main.py">>, <<"SKILL.md">>} : AnalyzerIdle(f, "benign")
    /\ CliIdle
    /\ ResIdle
    /\ node = NoNode
    /\ line \in MatchContexts
    /\ walkPos = 0

NextMatch == CheckMatchStep

SpecMatch == InitMatch /\ [][NextMatch]_vars

----------------------------------------------------------------------------
(* C25 *)

\* C25 (as claimed): a match of a pattern table that is preceded on its
\* line by an odd number of single quotes or by an odd number of double
\* quotes yields no finding.
C25_OpenQuoteRejected ==
    (pc = "analyzed"
       /\ (line.singleQuotes % 2 = 1 \/ line.doubleQuotes % 2 = 1))
        => file_findings = <<>>

----------------------------------------------------------------------------
(* SpecImport: PythonASTVisitor.visit on a single import statement         *)

MaxAliases == 2        \* names of an import statement

ImportModules == {"pickle", "marshal", "shelve", "json"}

\* import a, b  and  from m import a, b  (from . import a has module "")
ImportNodes ==
    {Import(names) :
        names \in SeqsUpTo(ImportModules, MaxAliases) \ {<<>>}}
    \cup {ImportFrom(m, names) :
             m \in ImportModules \cup {""},
             names \in SeqsUpTo({"loads", "pickle"}, MaxAliases) \ {<<>>}}

\* visitor.visit(node); visitor.issues
VisitImportStep ==
    /\ pc = "idle"
    /\ analyzers = <<"AST">>
    /\ node.type \in {"Import", "ImportFrom"}
    /\ file_findings' = Visit(node, Name(files[1]))
    /\ pc' = "analyzed"
    /\ UNCHANGED <<objVars, envVars, cliVars, resVars, unitVars, sink, files,
                   total_files, idx, content, aidx, all_findings,
                   files_scanned, elapsed, result, sinkCalls, log, scanNo,
                   prev, tainted_vars>>

InitImport ==
    /\ mode \in {"STANDARD", "DEEP"}
    /\ config = NoConfig
    /\ analyzers = <<"AST">>
    /\ ctorRaises = {}
    /\ rootPath = <<"skills", "demo">>
    /\ rootExists = FALSE
    /\ tree = EmptyTree
    /\ \E f \in {<<"main.py">>, <<"util.py">>} : AnalyzerIdle(f, "benign")
    /\ CliIdle
    /\ ResIdle
    /\ node \in ImportNodes
    /\ line = PlainLine
    /\ walkPos = 0

NextImport == VisitImportStep

SpecImport == InitImport /\ [][NextImport]_vars

----------------------------------------------------------------------------
(* C26 *)

\* C26 (as claimed): the visit of an import statement that names pickle,
\* marshal or shelve, as one of the modules of import X or as the module of
\* from X import Y, yields a MEDIUM finding of category deserialization
\* with confidence 0.7.
C26_UnsafeImportsFlagged ==
    pc = "analyzed" =>
        LET unsafe == {"pickle", "marshal", "shelve"}
            named == IF node.type = "Import"
                     THEN \E i \in 1..Len(node.names) : node.names[i] \in unsafe
                     ELSE node.module \in unsafe
        IN  named =>
              \E i \in 1..Len(file_findings) :
                 /\ file_findings[i].level = "MEDIUM"
                 /\ file_findings[i].category = "deserialization"
                 /\ file_findings[i].confidence = 14000

----------------------------------------------------------------------------
(* C27 *)

\* C27 (as claimed): on a line that is neither blank nor a comment, every
\* catalog match whose matched text holds no false-positive token yields a
\* pattern finding of its description and severity, whatever else the line
\* holds; on a blank or comment line there is no finding.
C27_OnlyMatchTextSuppresses ==
    pc = "analyzed" =>
        /\ line.blank => file_findings = <<>>
        /\ ~line.blank =>
              \A k \in 1..Len(line.matches) :
                 ~line.matches[k].falsePositive =>
                    \E i \in 1..Len(file_findings) :
                       /\ file_findings[i].pass = "pattern"
                       /\ file_findings[i].description
                            = line.matches[k].description
                       /\ file_findings[i].level = line.matches[k].severity

----------------------------------------------------------------------------
(* C30 *)

\* C30: every pattern finding of a line has a confidence of at least 0.7
\* (14000 in units of 1/20000): a line with a pattern finding holds no
\* false-positive token, neither does the value extracted from it, and the
\* confidence is 0.7 plus the bonuses that apply.
C30_PenaltyNeverApplies ==
    pc = "analyzed" =>
        \A i \in 1..Len(file_findings) :
           file_findings[i].pass = "pattern" =>
              /\ file_findings[i].confidence >= 14000
              /\ ~line.falsePositive
              /\ ~line.valueFalsePositive
              /\ file_findings[i].confidence
                    = 14000 + (IF line.keyAssign THEN 3000 ELSE 0)
                            + (IF line.valueLen >= 32 THEN 2000 ELSE 0)

\* C30 witness: a line without key assignment and with a short value
\* yielded a pattern finding of confidence exactly 0.7.
C30_Witness ==
    /\ pc = "analyzed"
    /\ ~line.keyAssign
    /\ line.valueLen < 32
    /\ \E i \in 1..Len(file_findings) :
          /\ file_findings[i].pass = "pattern"
          /\ file_findings[i].confidence = 14000

====
